---- MODULE Spec2Model ----
(***************************************************************************)
(* Model of the stack orchestration of gherlein/aws-ec2 (src/main.go):     *)
(* createStack and deleteStack acting on one stack name, its JSON config   *)
(* file, and the AWS collaborators (EC2, SSM, Route53, CloudFormation).    *)
(*                                                                         *)
(* Go strings that the code concatenates, compares by suffix or formats    *)
(* are sequences of characters (tokens); opaque resource identifiers are   *)
(* plain strings with "" the empty identifier.                             *)
(***************************************************************************)
EXTENDS Integers, Sequences, FiniteSets, TLC

VARIABLES
    file,       \* the persisted config file stacks/<name>.json (a StackConfig)
    cfg,        \* stackCfg: the in-memory StackConfig of the running invocation
    haveCfg,    \* stackCfg != nil (deleteStack continues without a config)
    zoneID,     \* the local variable zoneID of createStack
    op,         \* "none", "create" or "delete": the running / last invocation
    pc,         \* its position
    calls,      \* collaborator calls issued by the running / last invocation, in order
    acct,       \* the AWS account: VPCs, subnets, hosted zones, the compute stack
    runs,       \* invocations started so far
    faults,     \* collaborator / file-system failures and kills injected so far
    edits,      \* manual edits of the config file so far
    supplied    \* the config as the user wrote it (history of the input fields)

vars == <<file, cfg, haveCfg, zoneID, op, pc, calls, acct, runs, faults, edits, supplied>>

(***************************************************************************)
(* Bounds of the model.                                                    *)
(***************************************************************************)
MaxRuns == 2
MaxFaults == 1
MaxEdits == 1

(***************************************************************************)
(* Strings.                                                                *)
(***************************************************************************)
Str0 == <<>>

HasSuffix(s, suf) ==
    /\ Len(s) >= Len(suf)
    /\ SubSeq(s, Len(s) - Len(suf) + 1, Len(s)) = suf

HasPrefix(s, pre) ==
    /\ Len(s) >= Len(pre)
    /\ SubSeq(s, 1, Len(pre)) = pre

TrimPrefix(s, pre) == IF HasPrefix(s, pre) THEN SubSeq(s, Len(pre) + 1, Len(s)) ELSE s

\* fmt.Sprintf("%s.%s", a, b)
SprintfDot(a, b) == a \o <<".">> \o b

\* if !strings.HasSuffix(name, ".") { name = name + "." }
TrailingDot(name) == IF HasSuffix(name, <<".">>) THEN name ELSE name \o <<".">>

(***************************************************************************)
(* The values the inputs are drawn from.                                   *)
(***************************************************************************)
HostW == <<"w">>
DomainEC == <<"e", ".", "c">>
AliasA == <<"a">>
AliasB == <<"b">>
UserG == <<"g">>
IpAddr == <<"1", ".", "2">>
UserTTL == 60

Hostnames == {Str0, HostW}
Domains == {Str0, DomainEC}
AliasLists == {<<>>, <<AliasA, AliasB>>}
TTLs == {0, UserTTL}
GivenVpcIDs == {"", "vpc-u"}
GivenSubnetIDs == {"", "sub-u"}

(***************************************************************************)
(* StackConfig, DNSRecord.                                                 *)
(***************************************************************************)
DNSRecord(name, type, value, ttl) ==
    [Name |-> name, Type |-> type, Value |-> value, TTL |-> ttl]

NoRecord == DNSRecord(Str0, "", Str0, 0)

\* the zero value of StackConfig (what json.Unmarshal fills from "{}")
StackConfig ==
    [GitHubUsername |-> Str0, Users |-> <<>>, InstanceType |-> "", OS |-> "",
     CloudInitFile |-> "", Hostname |-> Str0, Domain |-> Str0, TTL |-> 0,
     IsApexDomain |-> FALSE, CNAMEAliases |-> <<>>, VpcID |-> "", SubnetID |-> "",
     StackName |-> "", StackID |-> "", Region |-> "", AMIID |-> "",
     InstanceID |-> "", PublicIP |-> Str0, SecurityGroup |-> "", ZoneID |-> Str0,
     FQDN |-> Str0, SSHCommand |-> Str0, DNSRecords |-> <<>>,
     CreatedVPC |-> FALSE, CreatedSubnet |-> FALSE, InternetGatewayID |-> "",
     RouteTableID |-> "", RouteTableAssociation |-> ""]

InputFields ==
    {"GitHubUsername", "Users", "InstanceType", "OS", "CloudInitFile", "Hostname",
     "Domain", "TTL", "IsApexDomain", "CNAMEAliases", "VpcID", "SubnetID"}

\* the config files a user writes before the first invocation
InputConfigs ==
    {[StackConfig EXCEPT !.GitHubUsername = UserG, !.Hostname = h, !.Domain = d,
                         !.TTL = UserTTL, !.IsApexDomain = x, !.CNAMEAliases = al,
                         !.VpcID = v, !.SubnetID = s] :
        h \in Hostnames, d \in Domains, x \in BOOLEAN,
        al \in AliasLists, v \in GivenVpcIDs, s \in GivenSubnetIDs}

\* the config file of the README's DNS-only example: one top-level key "dns"
TargetIP == <<"2", "0", "3">>

DNSSection ==
    [target_ip |-> TargetIP, hostname |-> HostW, domain |-> DomainEC,
     is_apex_domain |-> TRUE, cname_aliases |-> <<AliasA>>]

DNSOnlyFile == [dns |-> DNSSection] @@ StackConfig

\* json.Unmarshal into a StackConfig: a key of the file that no field of
\* StackConfig is tagged with is ignored
Unmarshal(f) == [k \in DOMAIN StackConfig |-> f[k]]

\* readConfig: json.Unmarshal of the file, then the defaults
readConfig(f) ==
    [Unmarshal(f) EXCEPT !.InstanceType = IF @ = "" THEN "t3.micro" ELSE @,
              !.TTL = IF @ = 0 THEN 300 ELSE @,
              !.Region = IF @ = "" THEN "us-east-1" ELSE @,
              !.OS = IF @ = "" THEN "amazon-linux-2023" ELSE @]

(***************************************************************************)
(* Validation.                                                             *)
(***************************************************************************)
LowerChars ==
    {"a", "b", "c", "d", "e", "f", "g", "h", "i", "j", "k", "l", "m",
     "n", "o", "p", "q", "r", "s", "t", "u", "v", "w", "x", "y", "z"}
DigitChars == {"0", "1", "2", "3", "4", "5", "6", "7", "8", "9"}

\* the first character is checked like the others
isValidLinuxUsername_DigitFirst(username) ==
    /\ ~(Len(username) = 0 \/ Len(username) > 32)
    /\ \A i \in 1..Len(username) :
          username[i] \in LowerChars \cup DigitChars \cup {"_", "-"}

isValidLinuxUsername(username) ==
    /\ ~(Len(username) = 0 \/ Len(username) > 32)
    /\ username[1] \in LowerChars
    /\ \A i \in 1..Len(username) :
          username[i] \in LowerChars \cup DigitChars \cup {"_", "-"}

User(username, github) == [Username |-> username, GitHubUsername |-> github]

\* config files without a usable user: no user at all, a user name that
\* starts with a digit, a user without a GitHub name
RejectedUserConfigs ==
    {[StackConfig EXCEPT !.TTL = UserTTL],
     [StackConfig EXCEPT !.TTL = UserTTL, !.Users = <<User(<<"1", "x">>, UserG)>>],
     [StackConfig EXCEPT !.TTL = UserTTL, !.Users = <<User(UserG, Str0)>>]}

\* the normalisation at the top of validateUserConfig (it mutates cfg)
normalizeUsers(c) ==
    IF Len(c.Users) = 0 /\ c.GitHubUsername # Str0
    THEN [c EXCEPT !.Users = <<User(c.GitHubUsername, c.GitHubUsername)>>]
    ELSE c

\* two users of one name are accepted
validateUserConfig_NoDuplicateCheck(c) ==
    /\ Len(c.Users) # 0
    /\ \A i \in 1..Len(c.Users) :
          /\ c.Users[i].Username # Str0
          /\ c.Users[i].GitHubUsername # Str0
          /\ isValidLinuxUsername(c.Users[i].Username)

\* validateUserConfig(cfg) == nil, on the normalised config
validateUserConfig(c) ==
    /\ Len(c.Users) # 0
    /\ \A i \in 1..Len(c.Users) :
          /\ c.Users[i].Username # Str0
          /\ c.Users[i].GitHubUsername # Str0
          /\ \A j \in 1..(i - 1) : c.Users[j].Username # c.Users[i].Username
          /\ isValidLinuxUsername(c.Users[i].Username)

\* an alias that occurs twice is accepted
validateDNSConfig_NoDuplicateCheck(c) ==
    /\ Len(c.CNAMEAliases) > 0 =>
          /\ ~(c.Hostname = Str0 \/ c.Domain = Str0)
          /\ \A i \in 1..Len(c.CNAMEAliases) :
                /\ c.CNAMEAliases[i] # Str0
                /\ c.CNAMEAliases[i] # c.Hostname
    /\ ~(c.IsApexDomain /\ c.Domain = Str0)

\* an alias equal to the primary hostname is accepted
validateDNSConfig_AliasIsHostname(c) ==
    /\ Len(c.CNAMEAliases) > 0 =>
          /\ ~(c.Hostname = Str0 \/ c.Domain = Str0)
          /\ \A i \in 1..Len(c.CNAMEAliases) :
                /\ c.CNAMEAliases[i] # Str0
                /\ \A j \in 1..(i - 1) : c.CNAMEAliases[j] # c.CNAMEAliases[i]
    /\ ~(c.IsApexDomain /\ c.Domain = Str0)

\* validateDNSConfig(cfg) == nil
validateDNSConfig(c) ==
    /\ Len(c.CNAMEAliases) > 0 =>
          /\ ~(c.Hostname = Str0 \/ c.Domain = Str0)
          /\ \A i \in 1..Len(c.CNAMEAliases) :
                /\ c.CNAMEAliases[i] # Str0
                /\ c.CNAMEAliases[i] # c.Hostname
                /\ \A j \in 1..(i - 1) : c.CNAMEAliases[j] # c.CNAMEAliases[i]
    /\ ~(c.IsApexDomain /\ c.Domain = Str0)

(***************************************************************************)
(* Collaborator calls, as the log records them.                            *)
(***************************************************************************)
\* api: the SDK operation; id: the resource it names; ctx: the second
\* identifier (the VPC of a gateway, the hosted zone of a record change);
\* rec: the resource record set of a Route53 change; ok: it returned no error
Call(api, id, ctx, rec, ok) ==
    [api |-> api, id |-> id, ctx |-> ctx, rec |-> rec, ok |-> ok]

Ec2Call(api, id, ctx, ok) == Call(api, id, <<ctx>>, NoRecord, ok)
PlainCall(api, ok) == Call(api, "", Str0, NoRecord, ok)

\* createARecord / createCNAMERecord: one UPSERT change
createARecord(zone, name, ip, ttl, ok) ==
    Call("UPSERT", "", zone, DNSRecord(TrailingDot(name), "A", ip, ttl), ok)

createCNAMERecord(zone, name, target, ttl, ok) ==
    Call("UPSERT", "", zone,
         DNSRecord(TrailingDot(name), "CNAME", TrailingDot(target), ttl), ok)

\* deleteARecord / deleteCNAMERecord: one DELETE change
deleteARecord(zone, name, ip, ttl, ok) ==
    Call("DELETE", "", zone, DNSRecord(TrailingDot(name), "A", ip, ttl), ok)

deleteCNAMERecord(zone, name, target, ttl, ok) ==
    Call("DELETE", "", zone,
         DNSRecord(TrailingDot(name), "CNAME", TrailingDot(target), ttl), ok)

\* the call issued for one record by the loops of deleteCreatedRecords and
\* deleteStack: none for a type that is neither A nor CNAME
deleteRecordCalls(zone, record, ok) ==
    IF record.Type = "A"
    THEN <<deleteARecord(zone, record.Name, record.Value, record.TTL, ok)>>
    ELSE IF record.Type = "CNAME"
    THEN <<deleteCNAMERecord(zone, record.Name, record.Value, record.TTL, ok)>>
    ELSE <<>>

RECURSIVE deleteLoop(_, _, _, _)
\* for _, record := range records: the delete of record i fails iff i \in fails
deleteLoop(zone, records, fails, i) ==
    IF i > Len(records) THEN <<>>
    ELSE deleteRecordCalls(zone, records[i], i \notin fails)
            \o deleteLoop(zone, records, fails, i + 1)

\* the compensation undoes the A records only
deleteCreatedRecords_OnlyA(zone, records, fails) ==
    deleteLoop(zone, SelectSeq(records, LAMBDA r : r.Type = "A"), fails, 1)

\* deleteCreatedRecords: the compensating deletes (errors are dropped)
deleteCreatedRecords(zone, records, fails) == deleteLoop(zone, records, fails, 1)

(***************************************************************************)
(* The AWS account.                                                        *)
(***************************************************************************)
Vpc(id, isDefault) == [id |-> id, isDefault |-> isDefault]
Subnet(id, vpc, mapPublic) == [id |-> id, vpc |-> vpc, mapPublic |-> mapPublic]
HostedZone(name, id) == [Name |-> name, Id |-> id]

ZoneEC == HostedZone(DomainEC \o <<".">>, <<"/hostedzone/", "Z1">>)

\* records: the resource record sets of the hosted zone
Account(vpcs, subnets) ==
    [vpcs |-> vpcs, subnets |-> subnets, zones |-> <<ZoneEC>>, records |-> <<>>,
     stack |-> FALSE]

\* Route53 ChangeResourceRecordSets with the one change the program sends:
\* UPSERT replaces the record set of that name and type or creates it, DELETE
\* removes the record set that matches the change; a failed call changes nothing
sameRecordSet(r, q) == r.Name = q.Name /\ r.Type = q.Type

\* every UPSERT adds a record set, whether or not one of that name and type exists
changeRecordSets_Append(rs, call) ==
    IF ~call.ok THEN rs
    ELSE IF call.api = "UPSERT" THEN Append(rs, call.rec)
    ELSE IF call.api = "DELETE" THEN SelectSeq(rs, LAMBDA r : r # call.rec)
    ELSE rs

changeRecordSets(rs, call) ==
    IF ~call.ok THEN rs
    ELSE IF call.api = "UPSERT"
    THEN IF \E i \in 1..Len(rs) : sameRecordSet(rs[i], call.rec)
         THEN [i \in 1..Len(rs) |->
                  IF sameRecordSet(rs[i], call.rec) THEN call.rec ELSE rs[i]]
         ELSE Append(rs, call.rec)
    ELSE IF call.api = "DELETE" THEN SelectSeq(rs, LAMBDA r : r # call.rec)
    ELSE rs

RECURSIVE zoneAfter(_, _, _)
\* the record sets after the calls cs[i..] in order
zoneAfter(rs, cs, i) ==
    IF i > Len(cs) THEN rs ELSE zoneAfter(changeRecordSets(rs, cs[i]), cs, i + 1)

\* the accounts a first create may meet
AccountStates ==
    { Account(<<>>, <<>>),
      Account(<<Vpc("vpc-x", FALSE), Vpc("vpc-d", TRUE)>>,
              <<Subnet("sub-d1", "vpc-d", FALSE), Subnet("sub-d2", "vpc-d", TRUE)>>),
      Account(<<Vpc("vpc-u", FALSE)>>, <<>>),
      Account(<<Vpc("vpc-u", FALSE)>>,
              <<Subnet("sub-u", "vpc-u", FALSE), Subnet("sub-u2", "vpc-u", FALSE)>>) }

NewId(kind, n) == kind \o "-" \o ToString(n)

Failed(cs) == Cardinality({i \in 1..Len(cs) : ~cs[i].ok})

(***************************************************************************)
(* Network topology: discoverVPC, discoverSubnet, createNetworkStack.      *)
(***************************************************************************)
\* discoverVPC; failAt: 0 none, 1 the is-default query, 2 the unfiltered query
discoverVPC(a, failAt) ==
    LET defaults == SelectSeq(a.vpcs, LAMBDA v : v.isDefault)
        q1 == Ec2Call("DescribeVpcs", "", "is-default", failAt # 1)
        q2 == Ec2Call("DescribeVpcs", "", "", failAt # 2)
    IN  IF failAt = 1 THEN [id |-> "", err |-> TRUE, calls |-> <<q1>>]
        ELSE IF Len(defaults) > 0
        THEN [id |-> defaults[1].id, err |-> FALSE, calls |-> <<q1>>]
        ELSE IF failAt = 2 THEN [id |-> "", err |-> TRUE, calls |-> <<q1, q2>>]
        ELSE IF Len(a.vpcs) = 0 THEN [id |-> "", err |-> FALSE, calls |-> <<q1, q2>>]
        ELSE [id |-> a.vpcs[1].id, err |-> FALSE, calls |-> <<q1, q2>>]

\* the first listed subnet is taken, public or not
discoverSubnet_FirstListed(a, vpcID, failAt) ==
    LET inVpc == SelectSeq(a.subnets, LAMBDA s : s.vpc = vpcID)
        q == Ec2Call("DescribeSubnets", "", vpcID, failAt # 1)
    IN  IF failAt = 1 THEN [id |-> "", err |-> TRUE, calls |-> <<q>>]
        ELSE IF Len(inVpc) = 0 THEN [id |-> "", err |-> FALSE, calls |-> <<q>>]
        ELSE [id |-> inVpc[1].id, err |-> FALSE, calls |-> <<q>>]

\* discoverSubnet; failAt: 0 none, 1 the DescribeSubnets query
discoverSubnet(a, vpcID, failAt) ==
    LET inVpc == SelectSeq(a.subnets, LAMBDA s : s.vpc = vpcID)
        public == SelectSeq(inVpc, LAMBDA s : s.mapPublic)
        q == Ec2Call("DescribeSubnets", "", vpcID, failAt # 1)
    IN  IF failAt = 1 THEN [id |-> "", err |-> TRUE, calls |-> <<q>>]
        ELSE IF Len(inVpc) = 0 THEN [id |-> "", err |-> FALSE, calls |-> <<q>>]
        ELSE IF Len(public) > 0 THEN [id |-> public[1].id, err |-> FALSE, calls |-> <<q>>]
        ELSE [id |-> inVpc[1].id, err |-> FALSE, calls |-> <<q>>]

NetworkStack ==
    [VpcID |-> "", SubnetID |-> "", InternetGatewayID |-> "", RouteTableID |-> "",
     RouteTableAssociation |-> ""]

NetSteps == 11

\* the calls of createNetworkStack in order; n names the resources of this run
createNetworkCalls(n) ==
    LET vpc == NewId("vpc", n)
        igw == NewId("igw", n)
        sub == NewId("sub", n)
        rt  == NewId("rtb", n)
    IN  << Ec2Call("CreateVpc", vpc, "", TRUE),
           Ec2Call("WaitVpcAvailable", vpc, "", TRUE),
           Ec2Call("ModifyVpcAttribute", vpc, "", TRUE),
           Ec2Call("CreateInternetGateway", igw, "", TRUE),
           Ec2Call("AttachInternetGateway", igw, vpc, TRUE),
           Ec2Call("DescribeAvailabilityZones", "", "", TRUE),
           Ec2Call("CreateSubnet", sub, vpc, TRUE),
           Ec2Call("ModifySubnetAttribute", sub, "", TRUE),
           Ec2Call("CreateRouteTable", rt, vpc, TRUE),
           Ec2Call("CreateRoute", rt, igw, TRUE),
           Ec2Call("AssociateRouteTable", rt, sub, TRUE) >>

\* createNetworkStack; failAt: 0 none, k the k-th call returns an error.
\* It always creates a VPC of its own and puts the subnet in it.
createNetworkStack(a, n, failAt) ==
    LET all == createNetworkCalls(n)
        last == IF failAt = 0 THEN NetSteps ELSE failAt
        done(k) == failAt = 0 \/ k < failAt
        log == [i \in 1..last |-> IF i = failAt THEN [all[i] EXCEPT !.ok = FALSE] ELSE all[i]]
        vpcs == IF done(1) THEN Append(a.vpcs, Vpc(NewId("vpc", n), FALSE)) ELSE a.vpcs
        subs == IF done(7)
                THEN Append(a.subnets, Subnet(NewId("sub", n), NewId("vpc", n), done(8)))
                ELSE a.subnets
    IN  [ns |-> [VpcID |-> IF done(1) THEN NewId("vpc", n) ELSE "",
                 SubnetID |-> IF done(7) THEN NewId("sub", n) ELSE "",
                 InternetGatewayID |-> IF done(4) THEN NewId("igw", n) ELSE "",
                 RouteTableID |-> IF done(9) THEN NewId("rtb", n) ELSE "",
                 RouteTableAssociation |-> IF done(11) THEN NewId("assoc", n) ELSE ""],
         err |-> failAt # 0,
         calls |-> log,
         acct |-> [a EXCEPT !.vpcs = vpcs, !.subnets = subs]]

\* a network stack that came back with an error is recorded as created
vpcDiscovered_PartialAccepted(c, a, d, net) ==
    IF d.err THEN [cfg |-> c, acct |-> a, calls |-> d.calls, err |-> TRUE]
    ELSE IF d.id # ""
    THEN [cfg |-> [c EXCEPT !.VpcID = d.id], acct |-> a, calls |-> d.calls, err |-> FALSE]
    ELSE [cfg |-> [c EXCEPT !.VpcID = net.ns.VpcID,
                            !.SubnetID = net.ns.SubnetID,
                            !.InternetGatewayID = net.ns.InternetGatewayID,
                            !.RouteTableID = net.ns.RouteTableID,
                            !.RouteTableAssociation = net.ns.RouteTableAssociation,
                            !.CreatedVPC = TRUE,
                            !.CreatedSubnet = TRUE],
          acct |-> net.acct,
          calls |-> d.calls \o net.calls, err |-> FALSE]

\* createStack, "Discover or create VPC and Subnet": the VPC half.
\* fv, fn: where discoverVPC / createNetworkStack fail (0: nowhere)
\* d: what discoverVPC returned; net: what createNetworkStack returns if called
vpcDiscovered(c, a, d, net) ==
    IF d.err THEN [cfg |-> c, acct |-> a, calls |-> d.calls, err |-> TRUE]
    ELSE IF d.id # ""
    THEN [cfg |-> [c EXCEPT !.VpcID = d.id], acct |-> a, calls |-> d.calls, err |-> FALSE]
    ELSE IF net.err
    THEN [cfg |-> c, acct |-> net.acct, calls |-> d.calls \o net.calls, err |-> TRUE]
    ELSE [cfg |-> [c EXCEPT !.VpcID = net.ns.VpcID,
                            !.SubnetID = net.ns.SubnetID,
                            !.InternetGatewayID = net.ns.InternetGatewayID,
                            !.RouteTableID = net.ns.RouteTableID,
                            !.RouteTableAssociation = net.ns.RouteTableAssociation,
                            !.CreatedVPC = TRUE,
                            !.CreatedSubnet = TRUE],
          acct |-> net.acct,
          calls |-> d.calls \o net.calls, err |-> FALSE]

\* the VPC is discovered even when the config names one
resolveVpc_AlwaysDiscover(c, a, n, fv, fn) ==
    vpcDiscovered(c, a, discoverVPC(a, fv), createNetworkStack(a, n, fn))

resolveVpc(c, a, n, fv, fn) ==
    IF c.VpcID # "" THEN [cfg |-> c, acct |-> a, calls |-> <<>>, err |-> FALSE]
    ELSE vpcDiscovered(c, a, discoverVPC(a, fv), createNetworkStack(a, n, fn))

\* the subnet half. fs, fn: where discoverSubnet / createNetworkStack fail
\* d: what discoverSubnet returned; net: what createNetworkStack returns if called
subnetDiscovered(c, a, d, net) ==
    IF d.err THEN [cfg |-> c, acct |-> a, calls |-> d.calls, err |-> TRUE]
    ELSE IF d.id # ""
    THEN [cfg |-> [c EXCEPT !.SubnetID = d.id], acct |-> a, calls |-> d.calls, err |-> FALSE]
    ELSE IF net.err
    THEN [cfg |-> c, acct |-> net.acct, calls |-> d.calls \o net.calls, err |-> TRUE]
    ELSE [cfg |-> [c EXCEPT !.VpcID = IF @ = "" THEN net.ns.VpcID ELSE @,
                            !.CreatedVPC = IF c.VpcID = "" THEN TRUE ELSE @,
                            !.SubnetID = net.ns.SubnetID,
                            !.InternetGatewayID = net.ns.InternetGatewayID,
                            !.RouteTableID = net.ns.RouteTableID,
                            !.RouteTableAssociation = net.ns.RouteTableAssociation,
                            !.CreatedSubnet = TRUE],
          acct |-> net.acct,
          calls |-> d.calls \o net.calls, err |-> FALSE]

\* the flag is derived again from the live environment: a subnet that is
\* found there counts as not created
resolveSubnet_Rediscover(c, a, n, fs, fn) ==
    subnetDiscovered([c EXCEPT !.CreatedSubnet = FALSE], a,
                     discoverSubnet(a, c.VpcID, fs), createNetworkStack(a, n, fn))

resolveSubnet(c, a, n, fs, fn) ==
    IF c.SubnetID # "" THEN [cfg |-> c, acct |-> a, calls |-> <<>>, err |-> FALSE]
    ELSE subnetDiscovered(c, a, discoverSubnet(a, c.VpcID, fs), createNetworkStack(a, n, fn))

\* both halves in sequence; the second runs only if the first did not abort
vpcResolved(r1, n, fs, fn) ==
    IF r1.err THEN r1
    ELSE [resolveSubnet(r1.cfg, r1.acct, n, fs, fn) EXCEPT !.calls = r1.calls \o @]

resolveNetwork(c, a, n, fv, fs, fn) == vpcResolved(resolveVpc(c, a, n, fv, fn), n, fs, fn)

(***************************************************************************)
(* AMI and hosted-zone lookup.                                             *)
(***************************************************************************)
osSSMPaths ==
    {"amazon-linux-2023", "amazon-linux-2", "ubuntu-24.04", "ubuntu-22.04",
     "ubuntu-20.04", "debian-12", "debian-11"}

\* lookupAMI; fail: GetParameter returns an error
lookupAMI(osName, fail) ==
    IF osName \notin osSSMPaths THEN [id |-> "", err |-> TRUE, calls |-> <<>>]
    ELSE IF fail THEN [id |-> "", err |-> TRUE, calls |-> <<PlainCall("GetParameter", FALSE)>>]
    ELSE [id |-> "ami-1", err |-> FALSE, calls |-> <<PlainCall("GetParameter", TRUE)>>]

\* the first listed zone is taken without comparing its name
lookupZoneID_FirstListed(a, domain, fail) ==
    LET name == TrailingDot(domain)
        q == Call("ListHostedZonesByName", "", name, NoRecord, ~fail)
    IN  IF fail THEN [id |-> Str0, err |-> TRUE, calls |-> <<q>>]
        ELSE IF Len(a.zones) > 0
        THEN [id |-> TrimPrefix(a.zones[1].Id, <<"/hostedzone/">>), err |-> FALSE,
              calls |-> <<q>>]
        ELSE [id |-> Str0, err |-> TRUE, calls |-> <<q>>]

\* lookupZoneID; fail: ListHostedZonesByName returns an error
lookupZoneID(a, domain, fail) ==
    LET name == TrailingDot(domain)
        match == SelectSeq(a.zones, LAMBDA z : z.Name = name)
        q == Call("ListHostedZonesByName", "", name, NoRecord, ~fail)
    IN  IF fail THEN [id |-> Str0, err |-> TRUE, calls |-> <<q>>]
        ELSE IF Len(match) > 0
        THEN [id |-> TrimPrefix(match[1].Id, <<"/hostedzone/">>), err |-> FALSE, calls |-> <<q>>]
        ELSE [id |-> Str0, err |-> TRUE, calls |-> <<q>>]

(***************************************************************************)
(* DNS records.                                                            *)
(***************************************************************************)
\* the apex record is applied first
plannedRecords_ApexFirst(c) ==
    LET fqdn == SprintfDot(c.Hostname, c.Domain)
    IN  IF c.Domain = Str0 THEN <<>>
        ELSE (IF c.IsApexDomain THEN <<DNSRecord(c.Domain, "A", c.PublicIP, c.TTL)>> ELSE <<>>)
             \o (IF c.Hostname # Str0 THEN <<DNSRecord(fqdn, "A", c.PublicIP, c.TTL)>> ELSE <<>>)
             \o (IF c.Hostname # Str0
                 THEN [i \in 1..Len(c.CNAMEAliases) |->
                          DNSRecord(SprintfDot(c.CNAMEAliases[i], c.Domain), "CNAME",
                                    fqdn, c.TTL)]
                 ELSE <<>>)

\* the records createDNSRecords applies, in the order it applies them
plannedRecords(c) ==
    LET fqdn == SprintfDot(c.Hostname, c.Domain)
        primary == IF c.Hostname # Str0
                   THEN <<DNSRecord(fqdn, "A", c.PublicIP, c.TTL)>>
                   ELSE <<>>
        cnames == IF c.Hostname # Str0 /\ Len(c.CNAMEAliases) > 0
                  THEN [i \in 1..Len(c.CNAMEAliases) |->
                           DNSRecord(SprintfDot(c.CNAMEAliases[i], c.Domain), "CNAME",
                                     fqdn, c.TTL)]
                  ELSE <<>>
        apex == IF c.IsApexDomain
                THEN <<DNSRecord(c.Domain, "A", c.PublicIP, c.TTL)>>
                ELSE <<>>
    IN  IF c.Domain = Str0 THEN <<>> ELSE primary \o cnames \o apex

\* the UPSERT of one planned record
applyRecord(zone, r, ok) ==
    IF r.Type = "A" THEN createARecord(zone, r.Name, r.Value, r.TTL, ok)
    ELSE createCNAMERecord(zone, r.Name, r.Value, r.TTL, ok)

\* createDNSRecords; failAt: 0 none, k the k-th UPSERT returns an error;
\* compFails: the compensating deletes (by position) that return an error.
\* A failed primary record returns at once; a failed CNAME or apex record
\* first runs deleteCreatedRecords over the records applied so far.
\* the UPSERTs of the records applied without error
upsertCalls(zone, applied) ==
    [i \in 1..Len(applied) |-> applyRecord(zone, applied[i], TRUE)]

\* the records applied before the failure are left in the zone
recordFails_NoCompensation(c, plan, k, compFails) ==
    [records |-> <<>>, err |-> TRUE,
     calls |-> upsertCalls(c.ZoneID, SubSeq(plan, 1, k - 1))
               \o <<applyRecord(c.ZoneID, plan[k], FALSE)>>]

\* the k-th record of the plan fails after the records before it were applied
recordFails(c, plan, k, compFails) ==
    [records |-> <<>>, err |-> TRUE,
     calls |-> upsertCalls(c.ZoneID, SubSeq(plan, 1, k - 1))
               \o <<applyRecord(c.ZoneID, plan[k], FALSE)>>
               \o (IF k = 1 /\ c.Hostname # Str0 THEN <<>>
                   ELSE deleteCreatedRecords(c.ZoneID, SubSeq(plan, 1, k - 1), compFails))]

recordsApplied(c, plan, failAt, compFails) ==
    IF failAt = 0 \/ failAt > Len(plan)
    THEN [records |-> plan, err |-> FALSE, calls |-> upsertCalls(c.ZoneID, plan)]
    ELSE recordFails(c, plan, failAt, compFails)

createDNSRecords(c, failAt, compFails) ==
    recordsApplied(c, plannedRecords(c), failAt, compFails)

\* createStack, "Create DNS records if configured" up to "Set SSH command":
\* a failure is logged as a warning and creation goes on
\* createStack, "Set SSH command"
setSSHCommand(c) ==
    [c EXCEPT !.SSHCommand = <<"ssh", " ">> \o c.Users[1].Username \o <<"@">>
                                \o (IF c.FQDN # Str0 THEN c.FQDN ELSE c.PublicIP)]

\* the planned records are stored although createDNSRecords returned an error
dnsApplied_KeepsPlanned(c0, r) ==
    [cfg |-> setSSHCommand(IF r.err THEN [c0 EXCEPT !.DNSRecords = plannedRecords(c0)]
                           ELSE [c0 EXCEPT !.DNSRecords = r.records,
                                           !.FQDN = IF c0.Hostname # Str0
                                                    THEN SprintfDot(c0.Hostname, c0.Domain)
                                                    ELSE IF c0.IsApexDomain THEN c0.Domain
                                                    ELSE @]),
     err |-> r.err,
     calls |-> r.calls]

\* r: what createDNSRecords returned for the config c0 with its zone
dnsApplied(c0, r) ==
    [cfg |-> setSSHCommand(IF r.err THEN c0
                           ELSE [c0 EXCEPT !.DNSRecords = r.records,
                                           !.FQDN = IF c0.Hostname # Str0
                                                    THEN SprintfDot(c0.Hostname, c0.Domain)
                                                    ELSE IF c0.IsApexDomain THEN c0.Domain
                                                    ELSE @]),
     err |-> r.err,
     calls |-> r.calls]

applyDNS(c, zone, failAt, compFails) ==
    IF zone = Str0 THEN [cfg |-> setSSHCommand(c), err |-> FALSE, calls |-> <<>>]
    ELSE dnsApplied([c EXCEPT !.ZoneID = zone],
                    createDNSRecords([c EXCEPT !.ZoneID = zone], failAt, compFails))

(***************************************************************************)
(* Teardown.                                                               *)
(***************************************************************************)
\* the records to delete are derived again from hostname, domain and aliases
deleteDNSCalls_Rederived(c, fails) ==
    IF c.ZoneID # Str0 /\ Len(c.DNSRecords) > 0
    THEN deleteLoop(c.ZoneID, plannedRecords(c), fails, 1)
    ELSE <<>>

\* deleteStack, "Delete DNS records if they were configured"
deleteDNSCalls(c, fails) ==
    IF c.ZoneID # Str0 /\ Len(c.DNSRecords) > 0
    THEN deleteLoop(c.ZoneID, c.DNSRecords, fails, 1)
    ELSE <<>>

NetDeleteApis ==
    {"DisassociateRouteTable", "DeleteRouteTable", "DeleteSubnet",
     "DetachInternetGateway", "DeleteInternetGateway", "DeleteVpc"}

\* deleteNetworkStack, "Disassociate and delete route table";
\* fails: the calls (by operation) that return an error
disassociateRouteTable(c, fails) ==
    IF c.RouteTableAssociation # ""
    THEN <<Ec2Call("DisassociateRouteTable", c.RouteTableAssociation, "",
                   "DisassociateRouteTable" \notin fails)>>
    ELSE <<>>

deleteRouteTable(c, fails) ==
    IF c.RouteTableID # ""
    THEN <<Ec2Call("DeleteRouteTable", c.RouteTableID, "", "DeleteRouteTable" \notin fails)>>
    ELSE <<>>

\* deleteNetworkStack, "Delete subnet"
deleteSubnet(c, fails) ==
    IF c.CreatedSubnet /\ c.SubnetID # ""
    THEN <<Ec2Call("DeleteSubnet", c.SubnetID, "", "DeleteSubnet" \notin fails)>>
    ELSE <<>>

\* deleteNetworkStack, "Detach and delete Internet Gateway"
deleteInternetGateway(c, fails) ==
    IF c.InternetGatewayID # "" /\ c.VpcID # ""
    THEN <<Ec2Call("DetachInternetGateway", c.InternetGatewayID, c.VpcID,
                   "DetachInternetGateway" \notin fails),
           Ec2Call("DeleteInternetGateway", c.InternetGatewayID, "",
                   "DeleteInternetGateway" \notin fails)>>
    ELSE <<>>

\* a VPC the tool only discovered is deleted all the same
deleteVpc_Ungated(c, fails) ==
    IF c.VpcID # ""
    THEN <<Ec2Call("DeleteVpc", c.VpcID, "", "DeleteVpc" \notin fails)>>
    ELSE <<>>

\* deleteNetworkStack, "Delete VPC"
deleteVpc(c, fails) ==
    IF c.CreatedVPC /\ c.VpcID # ""
    THEN <<Ec2Call("DeleteVpc", c.VpcID, "", "DeleteVpc" \notin fails)>>
    ELSE <<>>

\* the subnet is deleted while the route table is still associated with it
deleteNetworkStack_SubnetFirst(c, fails) ==
    deleteSubnet(c, fails) \o disassociateRouteTable(c, fails)
        \o deleteRouteTable(c, fails) \o deleteInternetGateway(c, fails)
        \o deleteVpc(c, fails)

\* deleteNetworkStack: the five blocks in the order of the code
deleteNetworkStack(c, fails) ==
    disassociateRouteTable(c, fails) \o deleteRouteTable(c, fails)
        \o deleteSubnet(c, fails) \o deleteInternetGateway(c, fails)
        \o deleteVpc(c, fails)

\* the teardown returns at the first call that fails
networkTeardown_StopAtFailure(c, fails) ==
    LET cs == deleteNetworkStack(c, fails)
        stops == {i \in 1..Len(cs) : ~cs[i].ok} \cup {Len(cs)}
    IN  IF c.CreatedVPC \/ c.CreatedSubnet \/ c.InternetGatewayID # ""
        THEN SubSeq(cs, 1, CHOOSE m \in stops : \A x \in stops : m <= x)
        ELSE <<>>

\* deleteStack, "Delete created network infrastructure": the guard of the call
networkTeardown(c, fails) ==
    IF c.CreatedVPC \/ c.CreatedSubnet \/ c.InternetGatewayID # ""
    THEN deleteNetworkStack(c, fails)
    ELSE <<>>

\* the subnet and its ownership flag stay recorded
clearOutputs_KeepsSubnet(c) ==
    [c EXCEPT !.StackName = "", !.StackID = "", !.InstanceID = "", !.PublicIP = Str0,
              !.SecurityGroup = "", !.ZoneID = Str0, !.FQDN = Str0,
              !.SSHCommand = Str0, !.DNSRecords = <<>>, !.CreatedVPC = FALSE,
              !.VpcID = "", !.InternetGatewayID = "", !.RouteTableID = "",
              !.RouteTableAssociation = ""]

\* deleteStack, "Clear output fields in config file"
clearOutputs(c) ==
    [c EXCEPT !.StackName = "", !.StackID = "", !.InstanceID = "", !.PublicIP = Str0,
              !.SecurityGroup = "", !.ZoneID = Str0, !.FQDN = Str0,
              !.SSHCommand = Str0, !.DNSRecords = <<>>, !.CreatedVPC = FALSE,
              !.CreatedSubnet = FALSE, !.VpcID = "", !.SubnetID = "",
              !.InternetGatewayID = "", !.RouteTableID = "",
              !.RouteTableAssociation = ""]

\* what the successful delete calls of a teardown remove from the account
afterTeardown(a, cs) ==
    LET gone(api) == {cs[i].id : i \in {j \in 1..Len(cs) : cs[j].api = api /\ cs[j].ok}}
    IN  [a EXCEPT !.vpcs = SelectSeq(a.vpcs, LAMBDA v : v.id \notin gone("DeleteVpc")),
                  !.subnets = SelectSeq(a.subnets, LAMBDA s : s.id \notin gone("DeleteSubnet"))]

(***************************************************************************)
(* The state machine.                                                      *)
(***************************************************************************)
Idle == {"idle", "done", "fatal", "killed"}

\* the DNS inputs vary in the account with a default VPC; the network inputs
\* vary, in every account, for a config without DNS and for one with all four
\* records
DefaultVpcAccount ==
    CHOOSE a \in AccountStates : \E i \in 1..Len(a.vpcs) : a.vpcs[i].isDefault

NetworkInputConfigs ==
    {f \in InputConfigs :
        \/ f.Hostname = Str0 /\ f.Domain = Str0 /\ ~f.IsApexDomain /\ f.CNAMEAliases = <<>>
        \/ f.Hostname = HostW /\ f.Domain = DomainEC /\ f.IsApexDomain
              /\ f.CNAMEAliases = <<AliasA, AliasB>>}

DNSInputConfigs == {f \in InputConfigs : f.VpcID = "" /\ f.SubnetID = ""}

\* what ListHostedZonesByName lists for the domain: nothing, only the zone of
\* another name, the zone, or two zones of that name followed by another
ZoneOther == HostedZone(<<"x", ".">> \o DomainEC \o <<".">>, <<"/hostedzone/", "Z0">>)
ZoneECPrivate == HostedZone(DomainEC \o <<".">>, <<"/hostedzone/", "Z2">>)

ZoneAccounts ==
    {[DefaultVpcAccount EXCEPT !.zones = zs] :
        zs \in {<<>>, <<ZoneOther>>, <<ZoneEC>>, <<ZoneECPrivate, ZoneEC, ZoneOther>>}}

\* the domain as the user may write it: with or without the trailing dot
ZoneInputConfigs ==
    {[StackConfig EXCEPT !.GitHubUsername = UserG, !.Hostname = HostW, !.Domain = d,
                         !.TTL = UserTTL, !.IsApexDomain = TRUE] :
        d \in {DomainEC, DomainEC \o <<".">>}}

\* a config whose os is not a key of osSSMPaths
UnsupportedOSConfigs ==
    {[StackConfig EXCEPT !.GitHubUsername = UserG, !.OS = "windows-2022"]}

Init ==
    /\ \/ file \in NetworkInputConfigs /\ acct \in AccountStates
       \/ /\ file \in DNSInputConfigs \cup RejectedUserConfigs \cup {DNSOnlyFile}
          /\ acct = DefaultVpcAccount
       \/ file \in ZoneInputConfigs /\ acct \in ZoneAccounts
       \/ file \in UnsupportedOSConfigs /\ acct \in AccountStates
    /\ cfg = StackConfig
    /\ haveCfg = FALSE
    /\ zoneID = Str0
    /\ op = "none"
    /\ pc = "idle"
    /\ calls = <<>>
    /\ runs = 0
    /\ faults = 0
    /\ edits = 0
    /\ supplied = file

\* the number of injected failures among the choices fs
Injected(fs) == Cardinality({i \in 1..Len(fs) : fs[i] # 0})

\* the config is not validated before the network is resolved
CreateStart_NoValidation ==
    /\ pc \in Idle
    /\ runs < MaxRuns
    /\ runs' = runs + 1
    /\ op' = "create"
    /\ calls' = <<>>
    /\ zoneID' = Str0
    /\ \E readFails \in BOOLEAN :
          /\ readFails => faults < MaxFaults
          /\ faults' = IF readFails THEN faults + 1 ELSE faults
          /\ haveCfg' = ~readFails
          /\ cfg' = IF readFails THEN StackConfig ELSE normalizeUsers(readConfig(file))
          /\ pc' = IF readFails THEN "fatal" ELSE "c_network"
    /\ UNCHANGED <<file, acct, edits, supplied>>

\* createStack, from readConfig to the two validations
CreateStart ==
    /\ pc \in Idle
    /\ runs < MaxRuns
    /\ runs' = runs + 1
    /\ op' = "create"
    /\ calls' = <<>>
    /\ zoneID' = Str0
    /\ \E readFails \in BOOLEAN :
          /\ readFails => faults < MaxFaults
          /\ faults' = IF readFails THEN faults + 1 ELSE faults
          /\ LET c == normalizeUsers(readConfig(file))
             IN  IF readFails
                 THEN /\ haveCfg' = FALSE
                      /\ cfg' = StackConfig
                      /\ pc' = "fatal"
                 ELSE /\ haveCfg' = TRUE
                      /\ cfg' = c
                      /\ pc' = IF validateUserConfig(c) /\ validateDNSConfig(c)
                               THEN "c_network" ELSE "fatal"
    /\ UNCHANGED <<file, acct, edits, supplied>>

\* createStack, "Discover or create VPC and Subnet"
CreateNetwork ==
    /\ pc = "c_network"
    /\ \E fv \in 0..2, fs \in 0..1, fn \in 0..NetSteps :
          \E r \in {resolveNetwork(cfg, acct, runs, fv, fs, fn)} :
              /\ Injected(<<fv, fs, fn>>) = Failed(r.calls)
              /\ faults + Failed(r.calls) <= MaxFaults
              /\ faults' = faults + Failed(r.calls)
              /\ cfg' = r.cfg
              /\ acct' = r.acct
              /\ calls' = calls \o r.calls
              /\ pc' = IF r.err THEN "fatal" ELSE "c_lookup"
    /\ UNCHANGED <<file, haveCfg, zoneID, op, runs, edits, supplied>>

\* the DNS records are applied right after the zone lookup
CreateLookup_ThenDNS ==
    /\ pc = "c_lookup"
    /\ \E fa \in BOOLEAN, fz \in BOOLEAN :
          LET ami == lookupAMI(cfg.OS, fa)
              zone == IF ~ami.err /\ cfg.Domain # Str0
                      THEN lookupZoneID(acct, cfg.Domain, fz)
                      ELSE [id |-> Str0, err |-> FALSE, calls |-> <<>>]
              n == (IF fa THEN 1 ELSE 0) + (IF fz THEN 1 ELSE 0)
          IN  /\ fa => Len(ami.calls) > 0
              /\ fz => Len(zone.calls) > 0
              /\ faults + n <= MaxFaults
              /\ faults' = faults + n
              /\ cfg' = IF ami.err THEN cfg ELSE [cfg EXCEPT !.AMIID = ami.id]
              /\ zoneID' = zone.id
              /\ calls' = calls \o ami.calls \o zone.calls
              /\ pc' = IF ami.err \/ zone.err THEN "fatal" ELSE "c_dns"
    /\ UNCHANGED <<file, haveCfg, acct, op, runs, edits, supplied>>

\* createStack, "Lookup AMI ID from SSM" and "Lookup zone ID if domain is specified"
CreateLookup ==
    /\ pc = "c_lookup"
    /\ \E fa \in BOOLEAN, fz \in BOOLEAN :
          LET ami == lookupAMI(cfg.OS, fa)
              zone == IF ~ami.err /\ cfg.Domain # Str0
                      THEN lookupZoneID(acct, cfg.Domain, fz)
                      ELSE [id |-> Str0, err |-> FALSE, calls |-> <<>>]
              n == (IF fa THEN 1 ELSE 0) + (IF fz THEN 1 ELSE 0)
          IN  /\ fa => Len(ami.calls) > 0
              /\ fz => Len(zone.calls) > 0
              /\ faults + n <= MaxFaults
              /\ faults' = faults + n
              /\ cfg' = IF ami.err THEN cfg ELSE [cfg EXCEPT !.AMIID = ami.id]
              /\ zoneID' = zone.id
              /\ calls' = calls \o ami.calls \o zone.calls
              /\ pc' = IF ami.err \/ zone.err THEN "fatal" ELSE "c_compute"
    /\ UNCHANGED <<file, haveCfg, acct, op, runs, edits, supplied>>

\* createStack, "Create CloudFormation stack" to "Update config with outputs";
\* f: 0 none, 1 CreateStack, 2 the create-complete wait, 3 DescribeStacks fails.
\* CreateStack also fails when a stack of that name exists.
CreateCompute ==
    /\ pc = "c_compute"
    /\ \E f \in 0..3 :
          LET exists == acct.stack
              submit == Call("CreateStack", "stack", <<cfg.VpcID, cfg.SubnetID>>, NoRecord,
                             ~exists /\ f # 1)
              wait == Call("WaitStackCreateComplete", "stack", Str0, NoRecord, f # 2)
              desc == Call("DescribeStacks", "stack", Str0, NoRecord, f # 3)
          IN  /\ exists => f = 0
              /\ f # 0 => faults < MaxFaults
              /\ faults' = IF f # 0 THEN faults + 1 ELSE faults
              /\ IF exists \/ f = 1
                 THEN /\ calls' = Append(calls, submit)
                      /\ UNCHANGED <<cfg, acct>>
                      /\ pc' = "fatal"
                 ELSE /\ acct' = [acct EXCEPT !.stack = TRUE]
                      /\ IF f = 2
                         THEN /\ calls' = calls \o <<submit, wait>>
                              /\ UNCHANGED cfg
                              /\ pc' = "fatal"
                         ELSE IF f = 3
                         THEN /\ calls' = calls \o <<submit, wait, desc>>
                              /\ UNCHANGED cfg
                              /\ pc' = "fatal"
                         ELSE /\ calls' = calls \o <<submit, wait, desc>>
                              /\ cfg' = [cfg EXCEPT !.StackName = "stack",
                                                    !.StackID = NewId("arn", runs),
                                                    !.InstanceID = NewId("i", runs),
                                                    !.PublicIP = IpAddr,
                                                    !.SecurityGroup = NewId("sg", runs)]
                              /\ pc' = "c_dns"
    /\ UNCHANGED <<file, haveCfg, zoneID, op, runs, edits, supplied>>

\* a failure of createDNSRecords aborts the creation
CreateDNS_Fatal ==
    /\ pc = "c_dns"
    /\ \E k \in 0..Len(plannedRecords(cfg)),
          compFails \in SUBSET (1..Len(plannedRecords(cfg))) :
          \E r \in {applyDNS(cfg, zoneID, k, compFails)},
             n \in {(IF k # 0 THEN 1 ELSE 0) + Cardinality(compFails)} :
              /\ n = Failed(r.calls)
              /\ faults + n <= MaxFaults
              /\ faults' = faults + n
              /\ cfg' = r.cfg
              /\ calls' = calls \o r.calls
              /\ acct' = [acct EXCEPT !.records = zoneAfter(@, r.calls, 1)]
              /\ pc' = IF r.err THEN "fatal" ELSE "c_write"
    /\ UNCHANGED <<file, haveCfg, zoneID, op, runs, edits, supplied>>

\* createStack, "Create DNS records if configured" and "Set SSH command"
CreateDNS ==
    /\ pc = "c_dns"
    /\ \E k \in 0..Len(plannedRecords(cfg)),
          compFails \in SUBSET (1..Len(plannedRecords(cfg))) :
          \E r \in {applyDNS(cfg, zoneID, k, compFails)},
             n \in {(IF k # 0 THEN 1 ELSE 0) + Cardinality(compFails)} :
              /\ n = Failed(r.calls)
              /\ faults + n <= MaxFaults
              /\ faults' = faults + n
              /\ cfg' = r.cfg
              /\ calls' = calls \o r.calls
              /\ acct' = [acct EXCEPT !.records = zoneAfter(@, r.calls, 1)]
              /\ pc' = "c_write"
    /\ UNCHANGED <<file, haveCfg, zoneID, op, runs, edits, supplied>>

\* createStack, "Write updated config": a failed write is only a warning
CreateWrite ==
    /\ pc = "c_write"
    /\ \E writeFails \in BOOLEAN :
          /\ writeFails => faults < MaxFaults
          /\ faults' = IF writeFails THEN faults + 1 ELSE faults
          /\ file' = IF writeFails THEN file ELSE cfg
    /\ pc' = "done"
    /\ UNCHANGED <<cfg, haveCfg, zoneID, acct, op, calls, runs, edits, supplied>>

\* deleteStack, "Try to read config for DNS cleanup": it goes on without one
DeleteStart ==
    /\ pc \in Idle
    /\ runs < MaxRuns
    /\ runs' = runs + 1
    /\ op' = "delete"
    /\ calls' = <<>>
    /\ zoneID' = Str0
    /\ \E readFails \in BOOLEAN :
          /\ readFails => faults < MaxFaults
          /\ faults' = IF readFails THEN faults + 1 ELSE faults
          /\ haveCfg' = ~readFails
          /\ cfg' = IF readFails THEN StackConfig ELSE readConfig(file)
    /\ pc' = "d_dns"
    /\ UNCHANGED <<file, acct, edits, supplied>>

\* the stack deletion is requested before the DNS records are deleted
DeleteDNS_AfterStack ==
    /\ pc = "d_dns"
    /\ \E fails \in SUBSET (1..Len(cfg.DNSRecords)) :
          \E cs \in {IF haveCfg THEN deleteDNSCalls(cfg, fails) ELSE <<>>} :
              /\ Cardinality(fails) = Failed(cs)
              /\ faults + Failed(cs) <= MaxFaults
              /\ faults' = faults + Failed(cs)
              /\ calls' = Append(calls, Call("DeleteStack", "stack", Str0, NoRecord, TRUE)) \o cs
              /\ acct' = [acct EXCEPT !.records = zoneAfter(@, cs, 1)]
    /\ pc' = "d_compute"
    /\ UNCHANGED <<file, cfg, haveCfg, zoneID, op, runs, edits, supplied>>

\* deleteStack, "Delete DNS records if they were configured"
DeleteDNS ==
    /\ pc = "d_dns"
    /\ \E fails \in SUBSET (1..Len(cfg.DNSRecords)) :
          \E cs \in {IF haveCfg THEN deleteDNSCalls(cfg, fails) ELSE <<>>} :
              /\ Cardinality(fails) = Failed(cs)
              /\ faults + Failed(cs) <= MaxFaults
              /\ faults' = faults + Failed(cs)
              /\ calls' = calls \o cs
              /\ acct' = [acct EXCEPT !.records = zoneAfter(@, cs, 1)]
    /\ pc' = "d_compute"
    /\ UNCHANGED <<file, cfg, haveCfg, zoneID, op, runs, edits, supplied>>

\* a failed delete-complete wait is logged and teardown goes on
DeleteCompute_WaitNotFatal ==
    /\ pc = "d_compute"
    /\ \E f \in 0..2 :
          LET del == Call("DeleteStack", "stack", Str0, NoRecord, f # 1)
              wait == Call("WaitStackDeleteComplete", "stack", Str0, NoRecord, f # 2)
          IN  /\ f # 0 => faults < MaxFaults
              /\ faults' = IF f # 0 THEN faults + 1 ELSE faults
              /\ calls' = IF f = 1 THEN Append(calls, del) ELSE calls \o <<del, wait>>
              /\ acct' = IF f = 0 THEN [acct EXCEPT !.stack = FALSE] ELSE acct
              /\ pc' = IF f = 1 THEN "fatal" ELSE "d_network"
    /\ UNCHANGED <<file, cfg, haveCfg, zoneID, op, runs, edits, supplied>>

\* deleteStack, "Delete CloudFormation stack" and the delete-complete wait;
\* f: 0 none, 1 DeleteStack, 2 the wait fails: both are fatal
DeleteCompute ==
    /\ pc = "d_compute"
    /\ \E f \in 0..2 :
          LET del == Call("DeleteStack", "stack", Str0, NoRecord, f # 1)
              wait == Call("WaitStackDeleteComplete", "stack", Str0, NoRecord, f # 2)
          IN  /\ f # 0 => faults < MaxFaults
              /\ faults' = IF f # 0 THEN faults + 1 ELSE faults
              /\ calls' = IF f = 1 THEN Append(calls, del) ELSE calls \o <<del, wait>>
              /\ acct' = IF f = 0 THEN [acct EXCEPT !.stack = FALSE] ELSE acct
              /\ pc' = IF f = 0 THEN "d_network" ELSE "fatal"
    /\ UNCHANGED <<file, cfg, haveCfg, zoneID, op, runs, edits, supplied>>

\* deleteStack, "Delete created network infrastructure"
DeleteNetwork ==
    /\ pc = "d_network"
    /\ \E fails \in SUBSET NetDeleteApis :
          \E cs \in {IF haveCfg THEN networkTeardown(cfg, fails) ELSE <<>>} :
              /\ Cardinality(fails) = Failed(cs)
              /\ faults + Failed(cs) <= MaxFaults
              /\ faults' = faults + Failed(cs)
              /\ calls' = calls \o cs
              /\ acct' = afterTeardown(acct, cs)
    /\ pc' = "d_clear"
    /\ UNCHANGED <<file, cfg, haveCfg, zoneID, op, runs, edits, supplied>>

\* the cleared config is written even when no config could be read
DeleteClear_AlwaysWrites ==
    /\ pc = "d_clear"
    /\ cfg' = clearOutputs(cfg)
    /\ \E writeFails \in BOOLEAN :
          /\ writeFails => faults < MaxFaults
          /\ faults' = IF writeFails THEN faults + 1 ELSE faults
          /\ file' = IF writeFails THEN file ELSE clearOutputs(cfg)
    /\ pc' = "done"
    /\ UNCHANGED <<haveCfg, zoneID, acct, op, calls, runs, edits, supplied>>

\* deleteStack, "Clear output fields in config file": a failed write is a warning
DeleteClear ==
    /\ pc = "d_clear"
    /\ IF haveCfg
       THEN /\ cfg' = clearOutputs(cfg)
            /\ \E writeFails \in BOOLEAN :
                  /\ writeFails => faults < MaxFaults
                  /\ faults' = IF writeFails THEN faults + 1 ELSE faults
                  /\ file' = IF writeFails THEN file ELSE clearOutputs(cfg)
       ELSE UNCHANGED <<cfg, file, faults>>
    /\ pc' = "done"
    /\ UNCHANGED <<haveCfg, zoneID, acct, op, calls, runs, edits, supplied>>

\* the process is terminated between two steps of an invocation
Kill ==
    /\ pc \notin Idle
    /\ faults < MaxFaults
    /\ faults' = faults + 1
    /\ pc' = "killed"
    /\ UNCHANGED <<file, cfg, haveCfg, zoneID, acct, op, calls, runs, edits, supplied>>

\* between two invocations the user edits one DNS input field of the file
EditConfig ==
    /\ pc \in Idle
    /\ 1 <= runs /\ runs < MaxRuns
    /\ edits < MaxEdits
    /\ edits' = edits + 1
    /\ \/ \E h \in Hostnames \ {file.Hostname} :
             /\ file' = [file EXCEPT !.Hostname = h]
             /\ supplied' = [supplied EXCEPT !.Hostname = h]
       \/ \E d \in Domains \ {file.Domain} :
             /\ file' = [file EXCEPT !.Domain = d]
             /\ supplied' = [supplied EXCEPT !.Domain = d]
       \/ \E t \in TTLs \ {file.TTL} :
             /\ file' = [file EXCEPT !.TTL = t]
             /\ supplied' = [supplied EXCEPT !.TTL = t]
       \/ /\ file' = [file EXCEPT !.IsApexDomain = ~file.IsApexDomain]
          /\ supplied' = [supplied EXCEPT !.IsApexDomain = ~file.IsApexDomain]
       \/ \E al \in AliasLists \ {file.CNAMEAliases} :
             /\ file' = [file EXCEPT !.CNAMEAliases = al]
             /\ supplied' = [supplied EXCEPT !.CNAMEAliases = al]
    /\ UNCHANGED <<cfg, haveCfg, zoneID, op, pc, calls, acct, runs, faults>>

Next ==
    \/ CreateStart
    \/ CreateNetwork
    \/ CreateLookup
    \/ CreateCompute
    \/ CreateDNS
    \/ CreateWrite
    \/ DeleteStart
    \/ DeleteDNS
    \/ DeleteCompute
    \/ DeleteNetwork
    \/ DeleteClear
    \/ Kill
    \/ EditConfig

Spec == Init /\ [][Next]_vars

(***************************************************************************)
(* createDNSRecords on its own: the configs createStack can hand to it     *)
(* (validated or not), a hosted zone that may already hold record sets,    *)
(* and up to MaxApplies calls in a row on the same config.                 *)
(***************************************************************************)
MaxApplies == 2

ZoneIdEC == TrimPrefix(ZoneEC.Id, <<"/hostedzone/">>)

DNSAliasLists == {<<>>, <<AliasA, AliasB>>, <<AliasA, HostW>>}

\* the config as createStack holds it when it calls createDNSRecords
DNSConfigs ==
    {[normalizeUsers(readConfig(
         [StackConfig EXCEPT !.GitHubUsername = UserG, !.Hostname = h, !.Domain = d,
                             !.TTL = t, !.IsApexDomain = x, !.CNAMEAliases = al]))
        EXCEPT !.PublicIP = IpAddr, !.ZoneID = ZoneIdEC] :
        h \in Hostnames, d \in Domains, t \in TTLs, x \in BOOLEAN, al \in DNSAliasLists}

\* record sets of earlier invocations: the primary record of this host as a
\* prior invocation applied it, the same name with another address, and the
\* record of another host
PriorPrimary == DNSRecord(TrailingDot(SprintfDot(HostW, DomainEC)), "A", IpAddr, UserTTL)
PriorStale == DNSRecord(TrailingDot(SprintfDot(HostW, DomainEC)), "A", <<"9">>, UserTTL)
PriorOther == DNSRecord(TrailingDot(SprintfDot(<<"m">>, DomainEC)), "A", <<"9">>, UserTTL)

PriorRecordSets == {<<>>, <<PriorOther>>, <<PriorOther, PriorPrimary>>, <<PriorStale>>}

DNSInit ==
    /\ cfg \in DNSConfigs
    /\ \E rs \in PriorRecordSets : acct = [Account(<<>>, <<>>) EXCEPT !.records = rs]
    /\ file = StackConfig
    /\ supplied = StackConfig
    /\ haveCfg = TRUE
    /\ zoneID = ZoneIdEC
    /\ op = "dns"
    /\ pc = "idle"
    /\ calls = <<>>
    /\ runs = 0
    /\ faults = 0
    /\ edits = 0

\* one call of createDNSRecords; the caller stores the returned list
CallCreateDNSRecords ==
    /\ op = "dns"
    /\ runs < MaxApplies
    /\ runs' = runs + 1
    /\ \E k \in 0..Len(plannedRecords(cfg)),
          compFails \in SUBSET (1..Len(plannedRecords(cfg))) :
          \E r \in {createDNSRecords(cfg, k, compFails)},
             n \in {(IF k # 0 THEN 1 ELSE 0) + Cardinality(compFails)} :
              /\ n = Failed(r.calls)
              /\ faults + n <= MaxFaults
              /\ faults' = faults + n
              /\ calls' = r.calls
              /\ acct' = [acct EXCEPT !.records = zoneAfter(@, r.calls, 1)]
              /\ cfg' = IF r.err THEN cfg ELSE [cfg EXCEPT !.DNSRecords = r.records]
              /\ pc' = IF r.err THEN "failed" ELSE "applied"
    /\ UNCHANGED <<file, haveCfg, zoneID, op, edits, supplied>>

DNSNext == CallCreateDNSRecords

DNSSpec == DNSInit /\ [][DNSNext]_vars

(***************************************************************************)
(* The validation functions on their own: validateUserConfig,              *)
(* validateDNSConfig and isValidLinuxUsername applied to configs that      *)
(* break each of their rules, and to configs that break none.              *)
(***************************************************************************)
\* user names around every rule of isValidLinuxUsername
ValUsernames ==
    {Str0, <<"a">>, <<"a", "1">>, <<"a", "_", "-">>, <<"z", "z", "9">>,
     <<"1", "a">>, <<"_", "a">>, <<"-", "a">>, <<"A">>, <<"a", "B">>,
     <<"a", ".", "b">>, <<"a", " ">>, <<"a", "@">>,
     [i \in 1..32 |-> "a"], [i \in 1..33 |-> "a"],
     [i \in 1..32 |-> IF i = 1 THEN "0" ELSE "a"]}

ValUserLists ==
    {<<>>, <<User(UserG, UserG)>>,
     <<User(AliasA, UserG), User(AliasB, UserG)>>,
     <<User(AliasA, UserG), User(AliasA, HostW)>>,
     <<User(AliasA, UserG), User(AliasB, UserG), User(AliasA, UserG)>>,
     <<User(Str0, UserG)>>, <<User(AliasA, Str0)>>,
     <<User(AliasA, UserG), User(AliasB, Str0)>>,
     <<User(AliasA, UserG), User(<<"1", "x">>, UserG)>>}

ValAliasLists ==
    {<<>>, <<AliasA>>, <<AliasA, AliasB>>, <<AliasA, AliasA>>, <<AliasA, Str0>>,
     <<AliasA, HostW>>, <<AliasA, AliasB, AliasA>>}

\* the configs readConfig hands to the validation
ValConfigs ==
    {readConfig([StackConfig EXCEPT !.GitHubUsername = UserG, !.Hostname = h, !.Domain = d,
                                    !.IsApexDomain = x, !.CNAMEAliases = al]) :
        h \in Hostnames, d \in Domains, x \in BOOLEAN, al \in ValAliasLists}
    \cup {readConfig([StackConfig EXCEPT !.GitHubUsername = g, !.Users = us]) :
             g \in {Str0, UserG, <<"G">>}, us \in ValUserLists}
    \cup {readConfig([StackConfig EXCEPT !.Users = <<User(u, UserG)>>]) : u \in ValUsernames}

ValInit ==
    /\ cfg \in ValConfigs
    /\ file = cfg
    /\ supplied = cfg
    /\ haveCfg = TRUE
    /\ zoneID = Str0
    /\ op = "validate"
    /\ pc = "idle"
    /\ calls = <<>>
    /\ acct = Account(<<>>, <<>>)
    /\ runs = 0
    /\ faults = 0
    /\ edits = 0

\* validateUserConfig(stackCfg): the config is normalised in place
CallValidateUserConfig ==
    /\ op = "validate" /\ pc = "idle"
    /\ cfg' = normalizeUsers(cfg)
    /\ pc' = IF validateUserConfig(cfg') THEN "user_ok" ELSE "user_err"
    /\ UNCHANGED <<file, haveCfg, zoneID, op, calls, acct, runs, faults, edits, supplied>>

\* validateDNSConfig(stackCfg)
CallValidateDNSConfig ==
    /\ op = "validate" /\ pc = "idle"
    /\ pc' = IF validateDNSConfig(cfg) THEN "dns_ok" ELSE "dns_err"
    /\ UNCHANGED <<file, cfg, haveCfg, zoneID, op, calls, acct, runs, faults, edits, supplied>>

\* isValidLinuxUsername(user.Username) for the first user of the config
CallIsValidLinuxUsername ==
    /\ op = "validate" /\ pc = "idle"
    /\ Len(cfg.Users) > 0
    /\ pc' = IF isValidLinuxUsername(cfg.Users[1].Username) THEN "name_ok" ELSE "name_bad"
    /\ UNCHANGED <<file, cfg, haveCfg, zoneID, op, calls, acct, runs, faults, edits, supplied>>

ValNext ==
    \/ CallValidateUserConfig
    \/ CallValidateDNSConfig
    \/ CallIsValidLinuxUsername

ValSpec == ValInit /\ [][ValNext]_vars

(***************************************************************************)
(* Two invocations on one stack name at the same time: a createStack and a *)
(* deleteStack, each a process of its own with its own stackCfg, sharing   *)
(* the config file and the account. Nothing in the program makes one wait  *)
(* for the other, so their steps interleave freely. No call fails here.    *)
(* A stack of that name may be left from an earlier invocation.            *)
(* cfg and pc hold one value per invocation; calls is the common log.      *)
(***************************************************************************)
RaceInputConfigs ==
    {f \in NetworkInputConfigs : f.VpcID = "" /\ f.SubnetID = ""}

RaceInit ==
    /\ file \in RaceInputConfigs
    /\ \E a \in {Account(<<>>, <<>>), DefaultVpcAccount}, left \in BOOLEAN :
          acct = [a EXCEPT !.stack = left]
    /\ cfg = [create |-> StackConfig, delete |-> StackConfig]
    /\ pc = [create |-> "idle", delete |-> "idle"]
    /\ haveCfg = FALSE
    /\ zoneID = Str0
    /\ op = "race"
    /\ calls = <<>>
    /\ runs = 0
    /\ faults = 0
    /\ edits = 0
    /\ supplied = file

\* createStack, from readConfig to the two validations
RaceCreateStart ==
    /\ op = "race" /\ pc.create = "idle"
    /\ runs' = runs + 1
    /\ \E c \in {normalizeUsers(readConfig(file))} :
          /\ cfg' = [cfg EXCEPT !.create = c]
          /\ pc' = [pc EXCEPT !.create = IF validateUserConfig(c) /\ validateDNSConfig(c)
                                         THEN "c_network" ELSE "fatal"]
    /\ UNCHANGED <<file, haveCfg, zoneID, op, calls, acct, faults, edits, supplied>>

\* createStack, "Discover or create VPC and Subnet"
RaceCreateNetwork ==
    /\ op = "race" /\ pc.create = "c_network"
    /\ \E r \in {resolveNetwork(cfg.create, acct, 1, 0, 0, 0)} :
          /\ cfg' = [cfg EXCEPT !.create = r.cfg]
          /\ acct' = r.acct
          /\ calls' = calls \o r.calls
    /\ pc' = [pc EXCEPT !.create = "c_lookup"]
    /\ UNCHANGED <<file, haveCfg, zoneID, op, runs, faults, edits, supplied>>

\* createStack, "Lookup AMI ID from SSM" and "Lookup zone ID if domain is specified"
RaceCreateLookup ==
    /\ op = "race" /\ pc.create = "c_lookup"
    /\ \E ami \in {lookupAMI(cfg.create.OS, FALSE)},
          zone \in {IF cfg.create.Domain # Str0
                    THEN lookupZoneID(acct, cfg.create.Domain, FALSE)
                    ELSE [id |-> Str0, err |-> FALSE, calls |-> <<>>]} :
          /\ cfg' = [cfg EXCEPT !.create.AMIID = ami.id]
          /\ zoneID' = zone.id
          /\ calls' = calls \o ami.calls \o zone.calls
          /\ pc' = [pc EXCEPT !.create = IF ami.err \/ zone.err THEN "fatal" ELSE "c_compute"]
    /\ UNCHANGED <<file, haveCfg, acct, op, runs, faults, edits, supplied>>

\* createStack, "Create CloudFormation stack" to "Update config with outputs";
\* CreateStack fails when a stack of that name exists
RaceCreateCompute ==
    /\ op = "race" /\ pc.create = "c_compute"
    /\ \E submit \in {Call("CreateStack", "stack",
                           <<cfg.create.VpcID, cfg.create.SubnetID>>, NoRecord, ~acct.stack)} :
          IF acct.stack
          THEN /\ calls' = Append(calls, submit)
               /\ pc' = [pc EXCEPT !.create = "fatal"]
               /\ UNCHANGED <<cfg, acct>>
          ELSE /\ calls' = calls \o <<submit,
                              Call("WaitStackCreateComplete", "stack", Str0, NoRecord, TRUE),
                              Call("DescribeStacks", "stack", Str0, NoRecord, TRUE)>>
               /\ acct' = [acct EXCEPT !.stack = TRUE]
               /\ cfg' = [cfg EXCEPT !.create.StackName = "stack",
                                     !.create.StackID = NewId("arn", 1),
                                     !.create.InstanceID = NewId("i", 1),
                                     !.create.PublicIP = IpAddr,
                                     !.create.SecurityGroup = NewId("sg", 1)]
               /\ pc' = [pc EXCEPT !.create = "c_dns"]
    /\ UNCHANGED <<file, haveCfg, zoneID, op, runs, faults, edits, supplied>>

\* createStack, "Create DNS records if configured" and "Set SSH command"
RaceCreateDNS ==
    /\ op = "race" /\ pc.create = "c_dns"
    /\ \E r \in {applyDNS(cfg.create, zoneID, 0, {})} :
          /\ cfg' = [cfg EXCEPT !.create = r.cfg]
          /\ calls' = calls \o r.calls
          /\ acct' = [acct EXCEPT !.records = zoneAfter(@, r.calls, 1)]
    /\ pc' = [pc EXCEPT !.create = "c_write"]
    /\ UNCHANGED <<file, haveCfg, zoneID, op, runs, faults, edits, supplied>>

\* createStack, "Write updated config"
RaceCreateWrite ==
    /\ op = "race" /\ pc.create = "c_write"
    /\ file' = cfg.create
    /\ pc' = [pc EXCEPT !.create = "done"]
    /\ UNCHANGED <<cfg, haveCfg, zoneID, acct, op, calls, runs, faults, edits, supplied>>

\* deleteStack, "Try to read config for DNS cleanup"
RaceDeleteStart ==
    /\ op = "race" /\ pc.delete = "idle"
    /\ runs' = runs + 1
    /\ cfg' = [cfg EXCEPT !.delete = readConfig(file)]
    /\ pc' = [pc EXCEPT !.delete = "d_dns"]
    /\ UNCHANGED <<file, haveCfg, zoneID, op, calls, acct, faults, edits, supplied>>

\* deleteStack, "Delete DNS records if they were configured"
RaceDeleteDNS ==
    /\ op = "race" /\ pc.delete = "d_dns"
    /\ \E cs \in {deleteDNSCalls(cfg.delete, {})} :
          /\ calls' = calls \o cs
          /\ acct' = [acct EXCEPT !.records = zoneAfter(@, cs, 1)]
    /\ pc' = [pc EXCEPT !.delete = "d_compute"]
    /\ UNCHANGED <<file, cfg, haveCfg, zoneID, op, runs, faults, edits, supplied>>

\* deleteStack, "Delete CloudFormation stack" and the delete-complete wait
RaceDeleteCompute ==
    /\ op = "race" /\ pc.delete = "d_compute"
    /\ calls' = calls \o <<Call("DeleteStack", "stack", Str0, NoRecord, TRUE),
                           Call("WaitStackDeleteComplete", "stack", Str0, NoRecord, TRUE)>>
    /\ acct' = [acct EXCEPT !.stack = FALSE]
    /\ pc' = [pc EXCEPT !.delete = "d_network"]
    /\ UNCHANGED <<file, cfg, haveCfg, zoneID, op, runs, faults, edits, supplied>>

\* deleteStack, "Delete created network infrastructure"
RaceDeleteNetwork ==
    /\ op = "race" /\ pc.delete = "d_network"
    /\ \E cs \in {networkTeardown(cfg.delete, {})} :
          /\ calls' = calls \o cs
          /\ acct' = afterTeardown(acct, cs)
    /\ pc' = [pc EXCEPT !.delete = "d_clear"]
    /\ UNCHANGED <<file, cfg, haveCfg, zoneID, op, runs, faults, edits, supplied>>

\* the file is read again and its outputs cleared
RaceDeleteClear_Reread ==
    /\ op = "race" /\ pc.delete = "d_clear"
    /\ cfg' = [cfg EXCEPT !.delete = clearOutputs(readConfig(file))]
    /\ file' = clearOutputs(readConfig(file))
    /\ pc' = [pc EXCEPT !.delete = "done"]
    /\ UNCHANGED <<haveCfg, zoneID, acct, op, calls, runs, faults, edits, supplied>>

\* deleteStack, "Clear output fields in config file"
RaceDeleteClear ==
    /\ op = "race" /\ pc.delete = "d_clear"
    /\ cfg' = [cfg EXCEPT !.delete = clearOutputs(@)]
    /\ file' = clearOutputs(cfg.delete)
    /\ pc' = [pc EXCEPT !.delete = "done"]
    /\ UNCHANGED <<haveCfg, zoneID, acct, op, calls, runs, faults, edits, supplied>>

RaceNext ==
    \/ RaceCreateStart
    \/ RaceCreateNetwork
    \/ RaceCreateLookup
    \/ RaceCreateCompute
    \/ RaceCreateDNS
    \/ RaceCreateWrite
    \/ RaceDeleteStart
    \/ RaceDeleteDNS
    \/ RaceDeleteCompute
    \/ RaceDeleteNetwork
    \/ RaceDeleteClear

RaceSpec == RaceInit /\ [][RaceNext]_vars

(***************************************************************************)
(* Vocabulary of the properties.                                           *)
(***************************************************************************)
\* positions of the calls of one operation in the log
At(api) == {i \in 1..Len(calls) : calls[i].api = api}
Issued(api) == At(api) # {}

NetDeleteCalls == {i \in 1..Len(calls) : calls[i].api \in NetDeleteApis}

\* a record as a Route53 change carries it: absolute names
Wire(r) ==
    DNSRecord(TrailingDot(r.Name), r.Type,
              IF r.Type = "CNAME" THEN TrailingDot(r.Value) ELSE r.Value, r.TTL)

Upserts == SelectSeq(calls, LAMBDA c : c.api = "UPSERT")
Deletes == SelectSeq(calls, LAMBDA c : c.api = "DELETE")

FailedUpsert(cs) == \E i \in 1..Len(cs) : cs[i].api = "UPSERT" /\ ~cs[i].ok

\* the calls a step has added to the log
NewCalls == IF Len(calls') >= Len(calls) /\ SubSeq(calls', 1, Len(calls)) = calls
            THEN SubSeq(calls', Len(calls) + 1, Len(calls'))
            ELSE calls'

C2_Rollback ==
    (op = "create" /\ pc = "c_write" /\ FailedUpsert(calls)) =>
        LET plan == plannedRecords(cfg)
            k == Len(Upserts)
        IN  /\ k <= Len(plan)
            /\ \A i \in 1..k : Upserts[i].rec = Wire(plan[i]) /\ (Upserts[i].ok <=> i < k)
            /\ Len(Deletes) = k - 1
            /\ \A i \in 1..(k - 1) :
                  Cardinality({j \in 1..Len(Deletes) : Deletes[j].rec = Wire(plan[i])}) = 1
            /\ \A d \in At("DELETE") : \A u \in At("UPSERT") : u < d
            /\ cfg.DNSRecords = file.DNSRecords
            /\ (Len(plan) = 4 /\ k = 3) => Len(Deletes) = 2

\* the 3rd of 4 planned records failed and the first two were compensated
C2_Witness ==
    /\ op = "create" /\ pc = "c_write"
    /\ Len(plannedRecords(cfg)) = 4
    /\ Len(Upserts) = 3 /\ ~Upserts[3].ok
    /\ Len(Deletes) = 2
    /\ cfg.DNSRecords = <<>>

NetworkPersisted ==
    /\ file.VpcID = cfg.VpcID
    /\ file.SubnetID = cfg.SubnetID
    /\ file.InternetGatewayID = cfg.InternetGatewayID
    /\ file.RouteTableID = cfg.RouteTableID
    /\ file.RouteTableAssociation = cfg.RouteTableAssociation
    /\ file.CreatedVPC = cfg.CreatedVPC
    /\ file.CreatedSubnet = cfg.CreatedSubnet

ComputePersisted ==
    /\ file.StackID = cfg.StackID
    /\ file.InstanceID = cfg.InstanceID
    /\ file.PublicIP = cfg.PublicIP
    /\ file.SecurityGroup = cfg.SecurityGroup

C4_PersistedAfterEachStep ==
    op = "create" =>
        /\ pc \in {"c_lookup", "c_compute", "c_dns", "c_write"} => NetworkPersisted
        /\ pc \in {"c_dns", "c_write"} => ComputePersisted

(***************************************************************************)
(* C5: in deleteStack every delete of a persisted DNS record is issued     *)
(* before the compute stack-deletion call: when DeleteStack is issued, all *)
(* records of dns_records have had their delete call and none follows.     *)
(***************************************************************************)
C5_DNSBeforeCompute ==
    (op = "delete" /\ Issued("DeleteStack")) =>
        /\ \A d \in At("DELETE") : \A s \in At("DeleteStack") : d < s
        /\ (haveCfg /\ pc # "done") =>
              \A r \in 1..Len(cfg.DNSRecords) :
                 \E d \in At("DELETE") : calls[d].rec = Wire(cfg.DNSRecords[r])

\* the stack deletion was requested after four record deletes
C5_Witness ==
    /\ op = "delete" /\ pc = "d_network"
    /\ Len(cfg.DNSRecords) = 4
    /\ Len(Deletes) = 4
    /\ Issued("DeleteStack")

(***************************************************************************)
(* C6: in deleteStack no network delete call is issued and the config file *)
(* is not rewritten unless the wait for the compute-stack deletion has     *)
(* reported completion; a failed stack deletion or wait is the last call   *)
(* of the invocation, which ends fatally with the file unchanged.          *)
(***************************************************************************)
WaitCompleted(cs) ==
    \E i \in 1..Len(cs) : cs[i].api = "WaitStackDeleteComplete" /\ cs[i].ok

C6_WaitGatesTeardown ==
    /\ [](op = "delete" =>
            /\ \A n \in NetDeleteCalls :
                  \E w \in At("WaitStackDeleteComplete") : w < n /\ calls[w].ok
            /\ \A i \in At("DeleteStack") \cup At("WaitStackDeleteComplete") :
                  ~calls[i].ok => i = Len(calls) /\ pc = "fatal")
    /\ [][(op = "delete" /\ pc \notin Idle /\ file' # file) => WaitCompleted(calls)]_vars

\* the wait failed after the DNS records had been deleted: nothing else happened
C6_Witness ==
    /\ op = "delete" /\ pc = "fatal"
    /\ \E w \in At("WaitStackDeleteComplete") : ~calls[w].ok
    /\ file.CreatedSubnet /\ file.StackID # ""
    /\ NetDeleteCalls = {}

(***************************************************************************)
(* C7: the calls of the network teardown occur in reverse-creation order:  *)
(* disassociate route table, delete route table, delete subnet, detach     *)
(* gateway, delete gateway, delete VPC; a call of a later kind never       *)
(* precedes a call of an earlier kind, whichever calls fail.               *)
(***************************************************************************)
TeardownRank(api) ==
    CASE api = "DisassociateRouteTable" -> 1
      [] api = "DeleteRouteTable" -> 2
      [] api = "DeleteSubnet" -> 3
      [] api = "DetachInternetGateway" -> 4
      [] api = "DeleteInternetGateway" -> 5
      [] api = "DeleteVpc" -> 6

C7_ReverseCreationOrder ==
    op = "delete" =>
        \A i \in NetDeleteCalls : \A j \in NetDeleteCalls :
            i < j => TeardownRank(calls[i].api) < TeardownRank(calls[j].api)

\* a full teardown of six calls in which one call failed
C7_Witness ==
    /\ op = "delete" /\ pc = "d_clear"
    /\ Cardinality(NetDeleteCalls) = 6
    /\ \E i \in NetDeleteCalls : ~calls[i].ok

(***************************************************************************)
(* C8: deleteStack issues one delete call per record of the persisted      *)
(* dns_records, in the persisted zone and with the record's persisted      *)
(* name, type, value and ttl (names in absolute form); the calls do not    *)
(* depend on the hostname, domain, aliases, apex flag or ttl of the config *)
(* as it is now.                                                           *)
(***************************************************************************)
C8_DeletesPersistedRecords ==
    (op = "delete" /\ haveCfg /\ pc \in {"d_compute", "d_network", "d_clear"}) =>
        /\ Len(Deletes) = Len(file.DNSRecords)
        /\ \A i \in 1..Len(Deletes) :
              /\ Deletes[i].rec = Wire(file.DNSRecords[i])
              /\ Deletes[i].ctx = file.ZoneID

\* the hostname was removed from the config after the create: the delete
\* still removes the four records of the create
C8_Witness ==
    /\ op = "delete" /\ pc = "d_compute" /\ haveCfg
    /\ edits = 1
    /\ file.Hostname = Str0
    /\ Len(file.DNSRecords) = 4
    /\ Len(Deletes) = 4
    /\ Deletes[1].rec.Name = SprintfDot(HostW, DomainEC) \o <<".">>

(***************************************************************************)
(* C9: after a deleteStack that ran to completion without any failure, no  *)
(* output or resource field of the persisted config has a value left.      *)
(***************************************************************************)
C9_OutputsCleared ==
    (op = "delete" /\ pc = "done" /\ haveCfg /\ faults = 0) =>
        /\ file.AMIID = ""
        /\ file.StackName = "" /\ file.StackID = ""
        /\ file.InstanceID = "" /\ file.PublicIP = Str0
        /\ file.SecurityGroup = "" /\ file.ZoneID = Str0
        /\ file.FQDN = Str0 /\ file.SSHCommand = Str0
        /\ file.DNSRecords = <<>>
        /\ file.InternetGatewayID = "" /\ file.RouteTableID = ""
        /\ file.RouteTableAssociation = ""
        /\ ~file.CreatedVPC /\ ~file.CreatedSubnet

(***************************************************************************)
(* C10: a deleteStack that ran to completion without any failure leaves    *)
(* the input fields the user supplied as the user supplied them.           *)
(***************************************************************************)
UserInputs ==
    {"VpcID", "SubnetID", "Users", "Hostname", "Domain", "TTL", "IsApexDomain",
     "CNAMEAliases"}

C10_InputsUntouched ==
    (op = "delete" /\ pc = "done" /\ haveCfg /\ faults = 0) =>
        \A f \in UserInputs :
            supplied[f] # StackConfig[f] => file[f] = supplied[f]

(***************************************************************************)
(* C11: a failed createDNSRecords call, compensation included, removes no  *)
(* record set that was in the hosted zone before the call: every name and  *)
(* type the zone held before is still held after.                          *)
(***************************************************************************)
C11_PriorRecordsSurvive ==
    [][(op = "dns" /\ pc' = "failed") =>
          \A i \in 1..Len(acct.records) :
             \E j \in 1..Len(acct'.records) :
                sameRecordSet(acct'.records[j], acct.records[i])]_vars

(***************************************************************************)
(* C12: when every apply call succeeds, the records applied and stored in  *)
(* dns_records are, in this order: the primary A record hostname.domain -> *)
(* ip iff hostname is non-empty, one CNAME alias.domain -> hostname.domain *)
(* per alias in list order iff hostname is non-empty, the apex A record    *)
(* domain -> ip iff is_apex_domain; each with the configured ttl.          *)
(***************************************************************************)
C12_PrimaryList ==
    IF cfg.Hostname # Str0
    THEN <<[Name |-> cfg.Hostname \o <<".">> \o cfg.Domain, Type |-> "A",
            Value |-> cfg.PublicIP, TTL |-> cfg.TTL]>>
    ELSE <<>>

C12_CNAMEList ==
    IF cfg.Hostname # Str0
    THEN [i \in 1..Len(cfg.CNAMEAliases) |->
             [Name |-> cfg.CNAMEAliases[i] \o <<".">> \o cfg.Domain, Type |-> "CNAME",
              Value |-> cfg.Hostname \o <<".">> \o cfg.Domain, TTL |-> cfg.TTL]]
    ELSE <<>>

C12_ApexList ==
    IF cfg.IsApexDomain
    THEN <<[Name |-> cfg.Domain, Type |-> "A", Value |-> cfg.PublicIP, TTL |-> cfg.TTL]>>
    ELSE <<>>

C12_Absolute(name) ==
    IF name # <<>> /\ name[Len(name)] = "." THEN name ELSE name \o <<".">>

C12_PlanInOrder ==
    (op = "create" /\ pc \in {"c_write", "done"} /\ zoneID # Str0 /\ ~FailedUpsert(calls)) =>
        LET list == C12_PrimaryList \o C12_CNAMEList \o C12_ApexList
        IN  /\ cfg.DNSRecords = list
            /\ Len(Upserts) = Len(list)
            /\ \A i \in 1..Len(list) :
                  /\ Upserts[i].rec.Name = C12_Absolute(list[i].Name)
                  /\ Upserts[i].rec.Type = list[i].Type
                  /\ Upserts[i].rec.TTL = list[i].TTL
                  /\ Upserts[i].rec.Value =
                        IF list[i].Type = "CNAME" THEN C12_Absolute(list[i].Value)
                        ELSE list[i].Value
            /\ pc = "c_write" => cfg.TTL = (IF supplied.TTL = 0 THEN 300 ELSE supplied.TTL)
            /\ (pc = "done" /\ file.StackID = cfg.StackID) => file.DNSRecords = list

\* primary, two aliases and apex were applied and written to the file
C12_Witness ==
    /\ op = "create" /\ pc = "done"
    /\ Len(Upserts) = 4 /\ ~FailedUpsert(calls)
    /\ Len(file.DNSRecords) = 4
    /\ file.DNSRecords[1].Type = "A" /\ file.DNSRecords[2].Type = "CNAME"
    /\ file.DNSRecords[4].Name = DomainEC

(***************************************************************************)
(* C13: for a config that validateDNSConfig accepts, no CNAME record that  *)
(* createDNSRecords applies is named like the zone apex (domain) or like   *)
(* the primary hostname's FQDN (hostname.domain); for hostname w, domain   *)
(* e.c and is_apex_domain the list is exactly the A records w.e.c and e.c. *)
(***************************************************************************)
C13_NoCNAMEAtApexOrHost ==
    (op = "dns" /\ validateDNSConfig(cfg)) =>
        /\ \A i \in 1..Len(Upserts) :
              Upserts[i].rec.Type = "CNAME" =>
                 /\ Upserts[i].rec.Name # cfg.Domain
                 /\ Upserts[i].rec.Name # cfg.Domain \o <<".">>
                 /\ Upserts[i].rec.Name # cfg.Hostname \o <<".">> \o cfg.Domain
                 /\ Upserts[i].rec.Name # cfg.Hostname \o <<".">> \o cfg.Domain \o <<".">>
        /\ (/\ pc = "applied" /\ cfg.Hostname = HostW /\ cfg.Domain = DomainEC
            /\ cfg.IsApexDomain /\ cfg.CNAMEAliases = <<>>) =>
               cfg.DNSRecords =
                  <<[Name |-> <<"w", ".", "e", ".", "c">>, Type |-> "A",
                     Value |-> cfg.PublicIP, TTL |-> cfg.TTL],
                    [Name |-> <<"e", ".", "c">>, Type |-> "A",
                     Value |-> cfg.PublicIP, TTL |-> cfg.TTL]>>

\* an accepted config with aliases and the apex flag had its four records applied
C13_Witness ==
    /\ op = "dns" /\ pc = "applied" /\ validateDNSConfig(cfg)
    /\ cfg.IsApexDomain /\ Len(cfg.CNAMEAliases) = 2
    /\ Len(Upserts) = 4
    /\ Upserts[2].rec.Type = "CNAME" /\ Upserts[3].rec.Type = "CNAME"

(***************************************************************************)
(* C14: a second successful createDNSRecords call with the same config     *)
(* leaves the hosted zone as the first one left it: the same record sets,  *)
(* the same count, and no two record sets of one name and type.            *)
(***************************************************************************)
C14_NoDuplicates(rs) ==
    \A i \in 1..Len(rs) : \A j \in 1..Len(rs) : sameRecordSet(rs[i], rs[j]) => i = j

C14_ApplyTwice ==
    [][(op = "dns" /\ pc = "applied" /\ pc' = "applied") =>
          /\ acct'.records = acct.records
          /\ Len(acct'.records) = Len(acct.records)
          /\ C14_NoDuplicates(acct'.records)]_vars

\* four records were applied twice to a zone that held two record sets
C14_Witness ==
    /\ op = "dns" /\ pc = "applied" /\ runs = 2 /\ faults = 0
    /\ Len(cfg.DNSRecords) = 4
    /\ Len(acct.records) = 5

(***************************************************************************)
(* C15: a config that validateUserConfig or validateDNSConfig rejects      *)
(* makes createStack end fatally with no collaborator call issued and the  *)
(* config file as it was.                                                  *)
(***************************************************************************)
C15_Rejected(c) == ~(validateUserConfig(c) /\ validateDNSConfig(c))

C15_RejectedBeforeAnyCall ==
    /\ []((op = "create" /\ haveCfg /\ C15_Rejected(cfg)) => (pc = "fatal" /\ calls = <<>>))
    /\ [][(op' = "create" /\ runs' # runs /\ haveCfg' /\ C15_Rejected(cfg')) =>
             (pc' = "fatal" /\ calls' = <<>> /\ file' = file)]_vars

\* a config whose only user has a name starting with a digit was rejected
C15_Witness ==
    /\ op = "create" /\ pc = "fatal" /\ haveCfg
    /\ Len(cfg.Users) = 1 /\ ~isValidLinuxUsername(cfg.Users[1].Username)
    /\ calls = <<>>
    /\ file = supplied

(***************************************************************************)
(* C16: in deleteStack a failed DNS record delete or network delete call   *)
(* is not fatal. Only a failed stack deletion or wait ends the invocation; *)
(* whichever record deletes fail, every persisted record gets its delete   *)
(* call; whichever network calls fail, the calls issued are those of a     *)
(* teardown without failures; and the clearing write follows.              *)
(***************************************************************************)
C16_Target(cs) == [i \in 1..Len(cs) |-> <<cs[i].api, cs[i].id, cs[i].ctx>>]

C16_TeardownFailed ==
    \E i \in 1..Len(calls) : calls[i].api \in NetDeleteApis \cup {"DELETE"} /\ ~calls[i].ok

C16_TeardownGoesOn ==
    /\ []((op = "delete" /\ haveCfg) =>
            /\ pc = "fatal" =>
                  \E i \in At("DeleteStack") \cup At("WaitStackDeleteComplete") : ~calls[i].ok
            /\ pc \in {"d_compute", "d_network", "d_clear"} =>
                  Len(Deletes) = Len(cfg.DNSRecords)
            /\ pc = "d_clear" =>
                  C16_Target(SelectSeq(calls, LAMBDA c : c.api \in NetDeleteApis))
                     = C16_Target(networkTeardown(cfg, {})))
    /\ [][(op = "delete" /\ haveCfg /\ C16_TeardownFailed /\ pc \notin Idle /\ pc' \in Idle) =>
             \/ pc' = "killed"
             \/ pc' = "fatal" /\ ~calls'[Len(calls')].ok
             \/ /\ pc' = "done"
                /\ faults' = faults =>
                      (file'.StackID = "" /\ file'.DNSRecords = <<>> /\ ~file'.CreatedSubnet)]_vars

\* the subnet delete failed; gateway and VPC were deleted and the state cleared
C16_Witness ==
    /\ op = "delete" /\ pc = "done" /\ haveCfg
    /\ \E i \in At("DeleteSubnet") : ~calls[i].ok
    /\ Issued("DeleteInternetGateway") /\ Issued("DeleteVpc")
    /\ file.AMIID # "" /\ file.StackID = ""

(***************************************************************************)
(* C17: when the config file gives a vpc_id (as an input: created_vpc is   *)
(* not set), createStack issues no VPC discovery call, hands that vpc_id   *)
(* to the compute stack and keeps it with created_vpc = false, in memory   *)
(* and in the file it writes.                                              *)
(***************************************************************************)
C17_GivenVpcUsed ==
    /\ (op = "create" /\ pc \notin Idle /\ file.VpcID # "" /\ ~file.CreatedVPC) =>
          /\ ~Issued("DescribeVpcs")
          /\ cfg.VpcID = file.VpcID /\ ~cfg.CreatedVPC
          /\ \A i \in At("CreateStack") : calls[i].ctx[1] = file.VpcID
    /\ (op = "create" /\ pc = "done" /\ runs = 1 /\ supplied.VpcID # "") =>
          /\ ~Issued("DescribeVpcs")
          /\ \A i \in At("CreateStack") : calls[i].ctx[1] = supplied.VpcID
          /\ file.StackID # "" => (file.VpcID = supplied.VpcID /\ ~file.CreatedVPC)

\* a stack was created in the VPC the config named
C17_Witness ==
    /\ op = "create" /\ pc = "done" /\ runs = 1
    /\ supplied.VpcID = "vpc-u" /\ file.VpcID = "vpc-u" /\ file.StackID # ""
    /\ \E i \in At("CreateStack") : calls[i].ok /\ calls[i].ctx[1] = "vpc-u"

(***************************************************************************)
(* C18: when the config file gives a subnet_id (as an input: created_subnet *)
(* is not set), createStack hands that subnet_id to the compute stack and  *)
(* keeps it with created_subnet = false, whatever the account holds.       *)
(***************************************************************************)
C18_GivenSubnetUsed ==
    (op = "create" /\ pc \notin Idle /\ file.SubnetID # "" /\ ~file.CreatedSubnet) =>
        /\ cfg.SubnetID = file.SubnetID /\ ~cfg.CreatedSubnet
        /\ \A i \in At("CreateStack") : calls[i].ctx[2] = file.SubnetID

(***************************************************************************)
(* C19: when subnet discovery finds no subnet in the resolved VPC and a    *)
(* subnet is created, no VPC is created: subnet, gateway attachment and    *)
(* route table are created in the resolved VPC, the config holds           *)
(* created_subnet = true and created_vpc = false, and the subnet handed to *)
(* the compute stack lies in the VPC handed to it.                         *)
(***************************************************************************)
C19_SubnetInResolvedVpc ==
    (/\ op = "create" /\ pc \in {"c_lookup", "c_compute", "c_dns", "c_write"}
     /\ Issued("DescribeSubnets") /\ Issued("CreateSubnet")) =>
        /\ ~Issued("CreateVpc")
        /\ cfg.CreatedSubnet /\ ~cfg.CreatedVPC
        /\ \A i \in At("CreateSubnet") \cup At("AttachInternetGateway")
                     \cup At("CreateRouteTable") : calls[i].ctx = <<cfg.VpcID>>
        /\ \A i \in 1..Len(acct.subnets) :
              acct.subnets[i].id = cfg.SubnetID => acct.subnets[i].vpc = cfg.VpcID
        /\ \A i \in At("CreateStack") : calls[i].ctx = <<cfg.VpcID, cfg.SubnetID>>

(***************************************************************************)
(* C20: when a call of the network creation fails after earlier calls have *)
(* created resources, createStack aborts and the file records what exists: *)
(* the VPC with created_vpc, the gateway, the subnet with created_subnet.  *)
(***************************************************************************)
C20_NetworkCreateApis ==
    {"CreateVpc", "WaitVpcAvailable", "ModifyVpcAttribute", "CreateInternetGateway",
     "AttachInternetGateway", "DescribeAvailabilityZones", "CreateSubnet",
     "ModifySubnetAttribute", "CreateRouteTable", "CreateRoute", "AssociateRouteTable"}

C20_PartialNetworkRecorded ==
    (/\ op = "create" /\ pc = "fatal"
     /\ \E i \in 1..Len(calls) : calls[i].api \in C20_NetworkCreateApis /\ ~calls[i].ok) =>
        /\ \A i \in At("CreateVpc") :
              calls[i].ok => (file.VpcID = calls[i].id /\ file.CreatedVPC)
        /\ \A i \in At("CreateInternetGateway") :
              calls[i].ok => file.InternetGatewayID = calls[i].id
        /\ \A i \in At("CreateSubnet") :
              calls[i].ok => (file.SubnetID = calls[i].id /\ file.CreatedSubnet)

(***************************************************************************)
(* C21: whenever the compute stack is requested with created_subnet =      *)
(* true, the config holds a non-empty internet_gateway_id, route_table_id   *)
(* and route_table_association_id. If the subnet was created by this        *)
(* invocation, the gateway was attached to the subnet's VPC, the default    *)
(* route to that gateway was added and the route table was associated with  *)
(* that subnet, each without error and before the request; otherwise the    *)
(* flag and the identifiers are those of the file a completed create wrote.  *)
(***************************************************************************)
C21_GatewayAndRouteBeforeCompute ==
    (op = "create" /\ Issued("CreateStack") /\ cfg.CreatedSubnet) =>
        /\ cfg.InternetGatewayID # ""
        /\ cfg.RouteTableID # ""
        /\ cfg.RouteTableAssociation # ""
        /\ IF Issued("CreateSubnet")
           THEN \E s \in At("CreateSubnet"), g \in At("AttachInternetGateway"),
                   r \in At("CreateRoute"), t \in At("AssociateRouteTable") :
                    /\ calls[s].ok /\ calls[g].ok /\ calls[r].ok /\ calls[t].ok
                    /\ calls[s].id = cfg.SubnetID
                    /\ calls[g].id = cfg.InternetGatewayID
                    /\ calls[g].ctx = calls[s].ctx
                    /\ calls[r].id = cfg.RouteTableID
                    /\ calls[r].ctx = <<cfg.InternetGatewayID>>
                    /\ calls[t].id = cfg.RouteTableID
                    /\ calls[t].ctx = <<cfg.SubnetID>>
                    /\ \A c \in At("CreateStack") : g < c /\ r < c /\ t < c
           ELSE /\ file.CreatedSubnet
                /\ file.SubnetID = cfg.SubnetID
                /\ file.InternetGatewayID = cfg.InternetGatewayID
                /\ file.RouteTableID = cfg.RouteTableID
                /\ file.RouteTableAssociation = cfg.RouteTableAssociation

\* the compute stack was created in a subnet this invocation had just created
C21_Witness ==
    /\ op = "create" /\ pc = "c_dns"
    /\ cfg.CreatedSubnet /\ Issued("CreateSubnet")
    /\ \E c \in At("CreateStack") : calls[c].ok /\ calls[c].ctx[2] = cfg.SubnetID

(***************************************************************************)
(* C22: for the config file that holds only a dns section with target_ip   *)
(* (hostname w, domain e.c, is_apex_domain, one alias a), a create without  *)
(* failures applies A w.e.c -> target_ip, CNAME a.e.c -> w.e.c and          *)
(* A e.c -> target_ip, and issues no compute-provisioning call.             *)
(***************************************************************************)
C22_DNSOnlyCreate ==
    (op = "create" /\ pc \in {"done", "fatal"} /\ faults = 0 /\ "dns" \in DOMAIN file) =>
        LET fqdn == file.dns.hostname \o <<".">> \o file.dns.domain
        IN  /\ ~Issued("CreateStack")
            /\ Len(Upserts) = 3
            /\ Upserts[1].rec.Name = fqdn \o <<".">>
            /\ Upserts[1].rec.Type = "A"
            /\ Upserts[1].rec.Value = file.dns.target_ip
            /\ Upserts[2].rec.Name = file.dns.cname_aliases[1] \o <<".">> \o file.dns.domain \o <<".">>
            /\ Upserts[2].rec.Type = "CNAME"
            /\ Upserts[2].rec.Value = fqdn \o <<".">>
            /\ Upserts[3].rec.Name = file.dns.domain \o <<".">>
            /\ Upserts[3].rec.Type = "A"
            /\ Upserts[3].rec.Value = file.dns.target_ip

(***************************************************************************)
(* C23: when the config read by createStack has an empty hostname and a    *)
(* non-empty domain, the invocation holds a generated hostname of 8        *)
(* characters over a-z and 0-9 and has written it to the file before any   *)
(* network or DNS call; the first record applied is the A record of that   *)
(* hostname in the domain.                                                 *)
(***************************************************************************)
C23_HostnameGenerated ==
    (/\ op = "create" /\ pc \in {"c_network", "c_lookup", "c_compute", "c_dns", "c_write"}
     /\ supplied.Hostname = Str0 /\ supplied.Domain # Str0) =>
        /\ Len(cfg.Hostname) = 8
        /\ \A i \in 1..Len(cfg.Hostname) : cfg.Hostname[i] \in LowerChars \cup DigitChars
        /\ file.Hostname = cfg.Hostname
        /\ Len(Upserts) > 0 =>
              /\ Upserts[1].rec.Type = "A"
              /\ Upserts[1].rec.Name = cfg.Hostname \o <<".">> \o cfg.Domain \o <<".">>

(***************************************************************************)
(* C24: validateDNSConfig accepts a config exactly when (a non-empty alias *)
(* list implies hostname and domain non-empty, no alias empty, the aliases *)
(* pairwise distinct and none equal to the hostname) and (is_apex_domain   *)
(* implies domain non-empty); every other config is rejected.              *)
(***************************************************************************)
C24_AcceptsExactly ==
    (op = "validate" /\ pc \in {"dns_ok", "dns_err"}) =>
        LET aliases == {cfg.CNAMEAliases[i] : i \in 1..Len(cfg.CNAMEAliases)}
        IN  pc = "dns_ok" <=>
               /\ cfg.CNAMEAliases # <<>> =>
                     /\ cfg.Hostname # Str0 /\ cfg.Domain # Str0
                     /\ Str0 \notin aliases
                     /\ Cardinality(aliases) = Len(cfg.CNAMEAliases)
                     /\ cfg.Hostname \notin aliases
               /\ cfg.IsApexDomain => cfg.Domain # Str0

\* a list in which one alias occurs twice, with hostname and domain, was rejected
C24_Witness ==
    /\ op = "validate" /\ pc = "dns_err"
    /\ cfg.Hostname # Str0 /\ cfg.Domain # Str0
    /\ cfg.CNAMEAliases = <<AliasA, AliasB, AliasA>>

(***************************************************************************)
(* C26: validateUserConfig accepts a config exactly when, a legacy         *)
(* github_username standing for one user if the users list is empty, there *)
(* is at least one user, every user has a non-empty username and           *)
(* github_username, the usernames are pairwise distinct and every username *)
(* has the valid format; every other config is rejected.                   *)
(***************************************************************************)
C26_UsersAcceptedExactly ==
    (op = "validate" /\ pc \in {"user_ok", "user_err"}) =>
        LET users == IF supplied.Users = <<>> /\ supplied.GitHubUsername # Str0
                     THEN <<[Username |-> supplied.GitHubUsername,
                             GitHubUsername |-> supplied.GitHubUsername]>>
                     ELSE supplied.Users
            names == {users[i].Username : i \in 1..Len(users)}
        IN  /\ cfg.Users = users
            /\ pc = "user_ok" <=>
                  /\ Len(users) >= 1
                  /\ \A i \in 1..Len(users) :
                        users[i].Username # Str0 /\ users[i].GitHubUsername # Str0
                  /\ Cardinality(names) = Len(users)
                  /\ \A u \in names :
                        /\ Len(u) \in 1..32
                        /\ u[1] \in LowerChars
                        /\ \A k \in 2..Len(u) : u[k] \in LowerChars \cup DigitChars \cup {"_", "-"}

\* a legacy github_username was converted into the one user and accepted
C26_Witness ==
    /\ op = "validate" /\ pc = "user_ok"
    /\ supplied.Users = <<>> /\ supplied.GitHubUsername = UserG
    /\ cfg.Users = <<User(UserG, UserG)>>

(***************************************************************************)
(* C27: isValidLinuxUsername(u) is true exactly when u has 1 to 32         *)
(* characters, the first a lowercase letter and every other one a          *)
(* lowercase letter, a digit, an underscore or a hyphen.                   *)
(***************************************************************************)
C27_MatchesPattern ==
    (op = "validate" /\ pc \in {"name_ok", "name_bad"}) =>
        LET u == cfg.Users[1].Username
        IN  pc = "name_ok" <=>
               /\ 1 <= Len(u) /\ Len(u) <= 32
               /\ u[1] \in LowerChars
               /\ \A k \in 2..Len(u) : u[k] \in LowerChars \cup DigitChars \cup {"_", "-"}

\* a name of 32 characters was accepted
C27_Witness ==
    /\ op = "validate" /\ pc = "name_ok"
    /\ Len(cfg.Users[1].Username) = 32

(***************************************************************************)
(* C25: a config that sets hostname, cname_aliases or is_apex_domain       *)
(* without a domain is rejected by the validation of createStack: the      *)
(* invocation ends fatally before any collaborator call and never goes on  *)
(* to provision a stack without DNS records.                               *)
(***************************************************************************)
C25_DNSRequiresDomain ==
    (/\ op = "create" /\ haveCfg
     /\ cfg.Domain = Str0
     /\ (cfg.Hostname # Str0 \/ cfg.CNAMEAliases # <<>> \/ cfg.IsApexDomain)) =>
        /\ pc = "fatal"
        /\ calls = <<>>

(***************************************************************************)
(* C28: when domain is non-empty, createStack lists the hosted zones by    *)
(* the domain with a trailing dot and takes the first listed zone of       *)
(* exactly that name as the zone; when no listed zone has exactly that     *)
(* name, the invocation ends fatally at the listing: no compute stack is   *)
(* requested and no DNS record call is issued. Without a domain no zone is *)
(* listed.                                                                 *)
(***************************************************************************)
C28_ZoneResolved ==
    op = "create" =>
        LET name == IF cfg.Domain # Str0 /\ cfg.Domain[Len(cfg.Domain)] = "."
                    THEN cfg.Domain ELSE cfg.Domain \o <<".">>
            hits == {i \in 1..Len(acct.zones) : acct.zones[i].Name = name}
        IN  /\ (haveCfg /\ cfg.Domain = Str0) => ~Issued("ListHostedZonesByName")
            /\ (pc \in {"c_compute", "c_dns", "c_write"} /\ cfg.Domain # Str0) =>
                  \E i \in At("ListHostedZonesByName") : calls[i].ok /\ calls[i].ctx = name
            /\ \A i \in At("ListHostedZonesByName") :
                  calls[i].ok =>
                     IF hits = {}
                     THEN /\ pc = "fatal" /\ i = Len(calls)
                          /\ ~Issued("CreateStack") /\ ~Issued("UPSERT")
                     ELSE pc \in {"c_compute", "c_dns", "c_write"} =>
                             \E h \in hits :
                                /\ \A g \in hits : h <= g
                                /\ <<"/hostedzone/">> \o zoneID = acct.zones[h].Id

\* the listing held only the zone of another name: the creation was aborted
C28_Witness ==
    /\ op = "create" /\ pc = "fatal"
    /\ acct.zones = <<ZoneOther>>
    /\ cfg.Domain = DomainEC \o <<".">>
    /\ calls[Len(calls)].api = "ListHostedZonesByName" /\ calls[Len(calls)].ok
    /\ Issued("GetParameter")

(***************************************************************************)
(* C29: when a DNS record call fails after the compute stack was created,  *)
(* createStack does not end fatally: the config holds the compute outputs  *)
(* and the dns_records it was read with, and the final write stores that   *)
(* config, so the file has the compute outputs and no record of the failed *)
(* attempt.                                                                *)
(***************************************************************************)
C29_WarningOnly ==
    /\ []((op = "create" /\ FailedUpsert(calls)) =>
            /\ pc \in {"c_write", "done", "killed"}
            /\ \E i \in At("CreateStack") : calls[i].ok
            /\ cfg.StackID # "" /\ cfg.InstanceID # "" /\ cfg.PublicIP # Str0
            /\ cfg.SecurityGroup # ""
            /\ pc = "c_write" => cfg.DNSRecords = file.DNSRecords)
    /\ [][(op = "create" /\ pc = "c_write" /\ FailedUpsert(calls) /\ faults' = faults) =>
             /\ pc' = "done"
             /\ file' = cfg
             /\ file'.StackID # "" /\ file'.InstanceID # "" /\ file'.PublicIP # Str0
             /\ file'.DNSRecords = file.DNSRecords]_vars

\* the apex record failed, the records before it were compensated, and the
\* file was written with the outputs of the compute stack and no record
C29_Witness ==
    /\ op = "create" /\ pc = "done"
    /\ FailedUpsert(calls) /\ Len(Deletes) >= 1
    /\ file.InstanceID # "" /\ file.PublicIP = IpAddr /\ file.SecurityGroup # ""
    /\ file.DNSRecords = <<>>
    /\ file.SSHCommand # Str0

(***************************************************************************)
(* C30: a createStack and a deleteStack on one stack name run without      *)
(* excluding each other and each writes the file from the copy it read at  *)
(* its start: a write keeps nothing of what the other invocation wrote in  *)
(* between. When the delete writes last the file holds the cleared state   *)
(* (no stack id, no DNS record, no created-network flag), whatever the     *)
(* create has left in the account.                                         *)
(***************************************************************************)
C30_RaceOnStateFile ==
    /\ []((op = "race" /\ pc.create = "done" /\ pc.delete = "done" /\ file = cfg.delete) =>
            /\ file.StackID = "" /\ file.InstanceID = ""
            /\ file.DNSRecords = <<>>
            /\ ~file.CreatedVPC /\ ~file.CreatedSubnet)
    /\ [][(op = "race" /\ file' # file) =>
             \/ /\ pc.create = "c_write" /\ pc'.create = "done"
                /\ file' = cfg.create
             \/ /\ pc.delete = "d_clear" /\ pc'.delete = "done"
                /\ file' = clearOutputs(cfg.delete)]_vars

\* both invocations are done and the file is the delete's cleared state, while
\* the stack, the VPC and the DNS records the create made exist
C30_Witness ==
    /\ op = "race" /\ pc.create = "done" /\ pc.delete = "done"
    /\ file = cfg.delete /\ file.StackID = "" /\ file.DNSRecords = <<>> /\ ~file.CreatedVPC
    /\ acct.stack
    /\ cfg.create.CreatedVPC
    /\ \E i \in 1..Len(acct.vpcs) : acct.vpcs[i].id = cfg.create.VpcID
    /\ Len(acct.records) = 4
    /\ \E i \in At("CreateStack") : calls[i].ok

(***************************************************************************)
(* C31: when the config gives no vpc_id, the network step of createStack   *)
(* resolves the VPC to the first VPC flagged default if the account has    *)
(* one, else to the first VPC of the account, and only in an account       *)
(* without any VPC to a VPC it creates, recorded with created_vpc = true;  *)
(* in an account that holds a VPC the step issues no CreateVpc.            *)
(***************************************************************************)
C31_VpcResolutionOrder ==
    [][(op = "create" /\ pc = "c_network" /\ cfg.VpcID = "") =>
          LET defaults == {i \in 1..Len(acct.vpcs) : acct.vpcs[i].isDefault}
              first == CHOOSE i \in defaults : \A j \in defaults : i <= j
              made == {i \in 1..Len(NewCalls) : NewCalls[i].api = "CreateVpc"}
          IN  /\ pc' = "c_lookup" =>
                    /\ defaults # {} =>
                          cfg'.VpcID = acct.vpcs[first].id /\ ~cfg'.CreatedVPC
                    /\ (defaults = {} /\ Len(acct.vpcs) > 0) =>
                          cfg'.VpcID = acct.vpcs[1].id /\ ~cfg'.CreatedVPC
                    /\ Len(acct.vpcs) = 0 =>
                          /\ cfg'.CreatedVPC
                          /\ \E i \in made : NewCalls[i].ok /\ NewCalls[i].id = cfg'.VpcID
              /\ Len(acct.vpcs) > 0 => made = {}]_vars

(***************************************************************************)
(* C32: when the config gives no subnet_id, the subnet taken from the      *)
(* resolved VPC is one that auto-assigns public addresses if the VPC has   *)
(* one, else the first listed subnet of that VPC; a subnet is created only *)
(* when the resolved VPC holds no subnet, and then it is recorded with     *)
(* created_subnet = true.                                                  *)
(***************************************************************************)
C32_SubnetResolution ==
    [][(op = "create" /\ pc = "c_network" /\ cfg.SubnetID = "") =>
          LET C32_SubnetsOf(vpcID) ==
                  {i \in 1..Len(acct.subnets) : acct.subnets[i].vpc = vpcID}
              asked == {i \in 1..Len(NewCalls) : NewCalls[i].api = "DescribeSubnets"}
              made == {i \in 1..Len(NewCalls) : NewCalls[i].api = "CreateSubnet"}
              newVpc == {i \in 1..Len(NewCalls) : NewCalls[i].api = "CreateVpc"}
          IN  /\ \A q \in asked :
                    LET inVpc == C32_SubnetsOf(NewCalls[q].ctx[1])
                        public == {i \in inVpc : acct.subnets[i].mapPublic}
                    IN  /\ pc' = "c_lookup" =>
                              /\ NewCalls[q].ctx[1] = cfg'.VpcID
                              /\ public # {} =>
                                    \E i \in public : cfg'.SubnetID = acct.subnets[i].id
                              /\ (public = {} /\ inVpc # {}) =>
                                    /\ cfg'.SubnetID \in {acct.subnets[i].id : i \in inVpc}
                                    /\ \A i \in inVpc :
                                          cfg'.SubnetID = acct.subnets[i].id =>
                                             \A j \in inVpc : i <= j
                              /\ inVpc # {} => ~cfg'.CreatedSubnet
                              /\ inVpc = {} =>
                                    /\ cfg'.CreatedSubnet
                                    /\ \E m \in made :
                                          NewCalls[m].ok /\ NewCalls[m].id = cfg'.SubnetID
                        /\ (inVpc # {} /\ NewCalls[q].ok) => made = {}
              /\ made # {} =>
                    \/ \E q \in asked :
                          NewCalls[q].ok /\ C32_SubnetsOf(NewCalls[q].ctx[1]) = {}
                    \/ asked = {} /\ \E v \in newVpc : C32_SubnetsOf(NewCalls[v].id) = {}]_vars

\* the second listed subnet of the default VPC was taken: it is the public one
C32_Witness ==
    /\ op = "create" /\ pc = "c_lookup" /\ file.SubnetID = ""
    /\ Issued("DescribeSubnets") /\ ~Issued("CreateSubnet")
    /\ cfg.VpcID = "vpc-d" /\ cfg.SubnetID = "sub-d2" /\ ~cfg.CreatedSubnet

(***************************************************************************)
(* C33: the ownership flags are write-once. In the file, created_vpc and   *)
(* created_subnet go from true to false only in the clearing step of       *)
(* deleteStack; no step of createStack, a create on a config that already  *)
(* records them included, leaves a recorded flag false in the config it    *)
(* works on.                                                               *)
(***************************************************************************)
C33_FlagsWriteOnce ==
    [][/\ ((file.CreatedVPC /\ ~file'.CreatedVPC)
             \/ (file.CreatedSubnet /\ ~file'.CreatedSubnet)) =>
                (op = "delete" /\ pc = "d_clear" /\ pc' = "done")
       /\ (op' = "create" /\ pc # pc' /\ pc' \notin {"fatal", "killed"}) =>
             /\ file.CreatedVPC => (cfg'.CreatedVPC /\ cfg'.VpcID = file.VpcID)
             /\ file.CreatedSubnet => (cfg'.CreatedSubnet /\ cfg'.SubnetID = file.SubnetID)
             /\ pc \notin Idle =>
                   /\ cfg.CreatedVPC => cfg'.CreatedVPC
                   /\ cfg.CreatedSubnet => cfg'.CreatedSubnet]_vars

\* a second create went through the network step on a config that records
\* both flags, in an account that by now holds the VPC and the subnet
C33_Witness ==
    /\ op = "create" /\ runs = 2 /\ pc = "c_lookup"
    /\ file.CreatedVPC /\ file.CreatedSubnet
    /\ cfg.CreatedVPC /\ cfg.CreatedSubnet
    /\ \E i \in 1..Len(acct.subnets) : acct.subnets[i].id = file.SubnetID

(***************************************************************************)
(* C34: createStack issues its external steps in a fixed order. Every      *)
(* call of the network resolution precedes the submission of the compute   *)
(* stack, which carries the resolved VPC and subnet; every DNS record      *)
(* change follows a successful create-complete wait and the successful     *)
(* read of the stack outputs; every A record applied carries the public    *)
(* IP read from them.                                                      *)
(***************************************************************************)
C34_FixedOrder ==
    op = "create" =>
        /\ \A c \in At("CreateStack") :
              /\ \A i \in 1..Len(calls) :
                    calls[i].api \in C20_NetworkCreateApis
                                        \cup {"DescribeVpcs", "DescribeSubnets"} => i < c
              /\ cfg.VpcID # "" /\ cfg.SubnetID # ""
              /\ calls[c].ctx = <<cfg.VpcID, cfg.SubnetID>>
        /\ \A u \in At("UPSERT") \cup At("DELETE") :
              /\ \E c \in At("CreateStack"), w \in At("WaitStackCreateComplete"),
                    d \in At("DescribeStacks") :
                    /\ calls[c].ok /\ calls[w].ok /\ calls[d].ok
                    /\ c < w /\ w < d /\ d < u
              /\ (calls[u].api = "UPSERT" /\ calls[u].rec.Type = "A") =>
                    (calls[u].rec.Value = cfg.PublicIP /\ cfg.PublicIP = IpAddr)

\* a create that built the network, then the compute stack, then four records
C34_Witness ==
    /\ op = "create" /\ pc = "c_write"
    /\ Issued("CreateVpc") /\ Issued("AssociateRouteTable")
    /\ Len(Upserts) = 4 /\ \A i \in 1..4 : Upserts[i].ok
    /\ \E i \in 1..4 : Upserts[i].rec.Type = "A" /\ Upserts[i].rec.Value = IpAddr

(***************************************************************************)
(* C35: in deleteStack the only fatal failure is that of the wait for the  *)
(* compute-stack deletion: an invocation that ended fatally has a failed   *)
(* wait in its log, and after a stack-deletion request that returned an    *)
(* error the invocation is at the network deletion or beyond it.           *)
(***************************************************************************)
C35_OnlyWaitIsFatal ==
    op = "delete" =>
        /\ pc = "fatal" => \E w \in At("WaitStackDeleteComplete") : ~calls[w].ok
        /\ \A i \in At("DeleteStack") :
              ~calls[i].ok => pc \in {"d_network", "d_clear", "done", "killed"}

(***************************************************************************)
(* C36: no leak across a create/delete cycle. After a create that          *)
(* completed and wrote its config, followed by a delete in which every     *)
(* call succeeded, each resource the create made has had a successful      *)
(* delete call: the compute stack and the DNS records are gone, the        *)
(* account holds no VPC and no subnet the tool created, and the gateway    *)
(* and the route table of the config were deleted.                         *)
(***************************************************************************)
C36_NoLeak ==
    (op = "delete" /\ pc = "d_clear" /\ runs = 2 /\ faults = 0 /\ file.StackID # "") =>
        /\ ~acct.stack
        /\ acct.records = <<>>
        /\ \A i \in 1..Len(acct.vpcs) : acct.vpcs[i].id # NewId("vpc", 1)
        /\ \A i \in 1..Len(acct.subnets) : acct.subnets[i].id # NewId("sub", 1)
        /\ file.InternetGatewayID # "" =>
              \E i \in At("DeleteInternetGateway") :
                 calls[i].ok /\ calls[i].id = file.InternetGatewayID
        /\ file.RouteTableID # "" =>
              \E i \in At("DeleteRouteTable") : calls[i].ok /\ calls[i].id = file.RouteTableID

(***************************************************************************)
(* C37, as the claim states it: after a completed deleteStack a resource   *)
(* whose delete call failed is still recorded in the file: the subnet, the *)
(* VPC, the route table, the gateway or the DNS record of a failed call.   *)
(***************************************************************************)
C37_KeptIfDeleteFailed ==
    (op = "delete" /\ pc = "done") =>
        \A i \in 1..Len(calls) :
           ~calls[i].ok =>
              /\ calls[i].api = "DeleteRouteTable" => file.RouteTableID = calls[i].id
              /\ calls[i].api = "DeleteSubnet" => file.SubnetID = calls[i].id
              /\ calls[i].api = "DeleteInternetGateway" =>
                    file.InternetGatewayID = calls[i].id
              /\ calls[i].api = "DeleteVpc" => file.VpcID = calls[i].id
              /\ calls[i].api = "DELETE" =>
                    \E r \in 1..Len(file.DNSRecords) :
                       Wire(file.DNSRecords[r]) = calls[i].rec

(***************************************************************************)
(* C37, amended: deleteStack with a config rewrites the file only in its   *)
(* clearing step, and that step, when its write succeeds, removes every    *)
(* resource identifier, the record list and both flags whether or not the  *)
(* delete calls succeeded; identifiers stay recorded only when the         *)
(* invocation ends before that step or the write fails.                    *)
(***************************************************************************)
C37_ClearedWhateverFailed ==
    [][(op = "delete" /\ pc \notin Idle) =>
          /\ file' # file => (pc = "d_clear" /\ pc' = "done" /\ haveCfg)
          /\ (pc = "d_clear" /\ pc' = "done" /\ haveCfg /\ faults' = faults) =>
                /\ file'.RouteTableAssociation = "" /\ file'.RouteTableID = ""
                /\ file'.SubnetID = "" /\ file'.InternetGatewayID = ""
                /\ file'.VpcID = "" /\ file'.DNSRecords = <<>>
                /\ ~file'.CreatedSubnet /\ ~file'.CreatedVPC]_vars

\* the subnet delete failed, the subnet is still in the account, and the
\* file no longer names it
C37_Witness ==
    /\ op = "delete" /\ pc = "done" /\ haveCfg
    /\ \E i \in At("DeleteSubnet") :
          /\ ~calls[i].ok
          /\ \E s \in 1..Len(acct.subnets) : acct.subnets[s].id = calls[i].id
    /\ file.SubnetID = "" /\ ~file.CreatedSubnet

(***************************************************************************)
(* C38: a config whose os is not a supported OS identifier makes           *)
(* createStack abort before any network resource is created and before     *)
(* any other resource is: no call of the network creation, no compute      *)
(* stack and no DNS record change is issued.                               *)
(***************************************************************************)
C38_UnsupportedOSAbortsFirst ==
    (op = "create" /\ haveCfg /\ cfg.OS \notin osSSMPaths) =>
        /\ pc \notin {"c_compute", "c_dns", "c_write", "done"}
        /\ \A i \in 1..Len(calls) :
              calls[i].api \notin C20_NetworkCreateApis \cup {"CreateStack", "UPSERT"}

(***************************************************************************)
(* C39: when the config file cannot be read or parsed, deleteStack still   *)
(* requests the deletion of the compute stack of the given name and waits  *)
(* for it, and does nothing else: no DNS record delete, no network delete  *)
(* call, and the file is not written.                                      *)
(***************************************************************************)
C39_DeleteWithoutConfig ==
    /\ []((op = "delete" /\ ~haveCfg) =>
            /\ \A i \in 1..Len(calls) :
                  /\ calls[i].api \in {"DeleteStack", "WaitStackDeleteComplete"}
                  /\ calls[i].id = "stack"
            /\ pc \in {"d_network", "d_clear", "done"} =>
                  \E d \in At("DeleteStack"), w \in At("WaitStackDeleteComplete") :
                     d < w /\ calls[d].ok /\ calls[w].ok)
    /\ [][(op = "delete" /\ ~haveCfg /\ pc \notin Idle) => file' = file]_vars

\* the stack of a completed create was deleted without a readable config:
\* its records and its network stay, in the zone and in the file
C39_Witness ==
    /\ op = "delete" /\ ~haveCfg /\ pc = "done"
    /\ ~acct.stack
    /\ file.StackID # "" /\ file.CreatedSubnet
    /\ Len(file.DNSRecords) = 4 /\ Len(acct.records) = 4
    /\ Len(calls) = 2

(***************************************************************************)
(* C40: when a call of createDNSRecords fails and every compensating       *)
(* delete succeeds, and the zone held no record set with the name of a     *)
(* planned record before the call, the record sets of the zone after the   *)
(* call are those before it.                                               *)
(***************************************************************************)
C40_ZoneRestored ==
    [][(/\ op = "dns" /\ runs' = runs + 1 /\ pc' = "failed"
        /\ \A i \in 1..Len(calls') : calls'[i].api = "DELETE" => calls'[i].ok
        /\ \A i \in 1..Len(acct.records) :
              \A p \in 1..Len(plannedRecords(cfg)) :
                 acct.records[i].Name # Wire(plannedRecords(cfg)[p]).Name) =>
          acct'.records = acct.records]_vars

\* the apex record failed after three records were applied; the three
\* compensating deletes left the zone with the one record it held before
C40_Witness ==
    /\ op = "dns" /\ pc = "failed"
    /\ Len(Upserts) = 4 /\ ~Upserts[4].ok
    /\ Len(Deletes) = 3 /\ \A i \in 1..3 : Deletes[i].ok
    /\ acct.records = <<PriorOther>>

====
